---- MODULE Spec2Model ----
(***************************************************************************)
(* Symposium: the conductor that routes ACP messages along a chain of      *)
(* proxy components, the JSON-RPC engine it is built on, and the handler   *)
(* chain that dispatches inbound messages.                                 *)
(*                                                                         *)
(* The module holds three state machines over disjoint groups of          *)
(* variables.  Each specification moves one group and leaves the others    *)
(* at their initial value:                                                 *)
(*   ChainSpec   the handler chain  (scp/src/jsonrpc/handlers.rs)          *)
(*   EngineSpec  one JSON-RPC connection (request ids, pending responses,  *)
(*               request contexts)                                         *)
(*   Spec        the conductor (conductor/src/conductor.rs)                *)
(***************************************************************************)
EXTENDS Integers, Sequences, FiniteSets, TLC

VARIABLES
    \* ---- handler chain -------------------------------------------------
    hcChain,      \* the handler tree installed on the connection
    hcMsg,        \* the inbound message of the last dispatch (NoMsg before)
    hcCalls,      \* the handle_request/handle_notification calls it caused
    hcResult,     \* what the root handler returned for it
    hcCount,      \* number of dispatches so far
    hcError,      \* the error the root handler returned, if it returned one
    hcReply,      \* the lines written back to the peer for the last dispatch
    \* ---- one JSON-RPC connection ----------------------------------------
    enNextId,     \* the id allocator for outbound requests
    enPending,    \* the pending-response map: the ids that have an entry
    enFuture,     \* id -> the response future send_request returned
    enIn,         \* the lines the peer wrote that the reader has not read
    enPeerResps,  \* how many responses the peer has written
    enAnswered,   \* the outstanding ids whose response the reader has read
    enStray,      \* how many responses read matched no outstanding request
    enDiscarded,  \* how many responses the reader dropped with a warning
    enCx,         \* inbound request id -> state of its request context
    enResponses,  \* inbound request id -> codes of the responses written for it
    enClosed,     \* the connection has been torn down
    enAtClose,    \* the pending-response map as it was at teardown
    wrIssued,     \* the lines the tasks have issued on the connection, in order
    wrQueue,      \* the lines waiting for the writer
    wrCur,        \* the line the writer holds and the next part of it to write
    wrStream,     \* the parts on the byte stream, not yet read by the peer
    wrPartial,    \* the parts the peer has read since the last end of line
    wrSeen,       \* the lines the peer has observed, in order
    \* ---- conductor ------------------------------------------------------
    cdN,          \* number of components in the chain; the last is the agent
    cdAccept,     \* component -> it confirms the proxy role when offered it
    cdToCond,     \* link -> lines the endpoint wrote, not yet read by the conductor
    cdRx,         \* conductor_rx: the ConductorMessages awaiting the main loop
    cdNextId,     \* link -> id allocator of the conductor's end of the link
    cdPending,    \* requests the conductor forwarded and the tasks awaiting them
    cdEndNext,    \* link -> id allocator of the endpoint's end of the link
    cdOwed,       \* editor / agent -> requests read and not yet answered
    cdPxPend,     \* proxy -> requests it forwarded and has not answered yet
    cdObs,        \* link -> lines the conductor wrote and the endpoint read, in order
    cdWrote,      \* link -> lines the endpoint has written, in order
    cdTraffic,    \* number of requests and notifications originated so far
    cdEdInit,     \* the editor's initialize: none, sent, ok, failed
    cdFailed,     \* the initialize handshake has failed
    cdSpawned,    \* number of components launch_proxy has spawned
    cdDown,       \* links whose peer has gone: its streams are closed
    cdClosed,     \* links whose connection the conductor has torn down
    cdTerminated, \* Conductor::run has returned
    \* ---- MCP service registry ------------------------------------------
    mcServers,    \* registered_by_url: the registered servers (name, uuid of url)
    mcConnections,\* connections: connection id -> what was sent to its mailbox
    mcTornDown,   \* the connection ids whose session was torn down, in order
    mcUuid,       \* the uuids drawn so far (each draw is fresh)
    mcMsg,        \* the last message the registry was handed
    mcHandled,    \* what the registry returned for it: Yes, No
    mcSent,       \* the lines it caused to be sent, in order, and to whom
    mcForward,    \* ids of the session/new requests awaiting the successor
    mcCount,      \* number of messages handed to the registry so far
    \* ---- MCP bridging of the conductor: session/new rewrite ------------
    brNative,     \* the agent advertised mcp_acp_transport
    brBridges,    \* mcp_bridges: acp url -> the port of its latest listener
    brListeners,  \* the listeners bound on 127.0.0.1: port -> its acp url
    brOrig,       \* mcp_servers of the last session/new, as it arrived
    brSeen,       \* mcp_servers of that request as forwarded, or the error
    brCount,      \* number of session/new requests handled so far
    \* ---- `conductor mcp <port>`: the stdio <-> TCP message loop --------
    shWrote,      \* the lines the MCP client wrote to stdin / the conductor to TCP
    shPipe,       \* the chunks of them not yet read, per direction
    shBuf,        \* the chunks the pending read_line has accumulated, per direction
    shOut,        \* the lines written to the other side, per direction
    shRun,        \* running, stopped (end of input) or error
    \* ---- `conductor mcp <port>`: connect_with_retry --------------------
    rtAttempt,    \* the attempt being made (1..), 0 before the helper starts
    rtDelay,      \* retry_delay_ms
    rtSleep,      \* what is left of the current sleep, in ms
    rtClock,      \* ms since the helper started
    rtBoundAt,    \* when the port became bound, -1 while it is not
    rtResult,     \* connecting, ok (a stream was returned) or failed
    \* ---- registrations made through several handles of one registry ----
    rgByName,     \* registered_by_name: name -> uuid of the server's url
    rgByUrl,      \* registered_by_url: the servers, by name and uuid of url
    rgCalls,      \* the add_rmcp_server calls: name, position, result
    rgUuid,       \* the uuids drawn so far
    \* ---- bridge_actor of one TCP bridge connection ---------------------
    baSent,       \* the messages queued for the connection so far
    baQueue,      \* bridge_rx: those not yet taken
    baSocket,     \* the messages written to the TCP socket
    baOpen,       \* what is open of: the mailbox (it has a sender), the socket
    baRun,        \* running, stopped (mailbox closed) or panicked
    \* ---- VS Code language-model backend ---------------------------------
    lmSessions,   \* the state of each session of the handler
    lmTurn,       \* session -> the request last prompted to its actor (0: none)
    lmCancel,     \* request id -> its cancel oneshot: none, open, sent, gone
    lmDropped,    \* the tool calls whose decision sender was dropped
    lmEvents,     \* request id -> what is on prompt_rx, not yet taken
    lmTask,       \* request id -> its stream_response task: none, running, done
    lmOut,        \* the lines written to VS Code, in order
    lmHandler,    \* running or panicked
    lmAsked,      \* number of lm/provideLanguageModelChatResponse requests read
    lmAfter,      \* request id -> what its session was doing when it came
    lmCancelled,  \* the requests cancelled while their task was running
    \* ---- permission requests in the session actor -----------------------
    pmRequest,    \* the last permission request and what came with it
    pmAnswers,    \* the outcomes the actor has responded to it with
    pmHistory,    \* what the actor has sent to the history actor
    pmActor,      \* running or panicked
    pmCount,      \* number of permission requests so far
    \* ---- recommendation diffs of the config agent -----------------------
    rcRecommended, \* the sources recommended for the workspace
    rcConfig,     \* the extensions of the workspace config
    rcDiff,       \* the diff being prompted (NoDiff: none)
    rcApplied,    \* the diff last applied to the config
    rcBefore,     \* the config as it was before that
    rcLast        \* the last thing that happened

hcVars == <<hcChain, hcMsg, hcCalls, hcResult, hcCount, hcError, hcReply>>

wrVars == <<wrIssued, wrQueue, wrCur, wrStream, wrPartial, wrSeen>>

rwVars == <<enNextId, enPending, enFuture, enIn, enPeerResps, enAnswered,
            enStray, enDiscarded, enCx, enResponses, enClosed, enAtClose>>

enVars == <<rwVars, wrVars>>

flVars == <<cdSpawned, cdDown, cdClosed, cdTerminated>>

cdVars == <<cdN, cdAccept, cdToCond, cdRx, cdNextId, cdPending,
            cdEndNext, cdOwed, cdPxPend, cdObs, cdWrote, cdTraffic, cdEdInit,
            cdFailed, flVars>>

mcVars == <<mcServers, mcConnections, mcTornDown, mcUuid, mcMsg, mcHandled, mcSent,
            mcForward, mcCount>>

brVars == <<brNative, brBridges, brListeners, brOrig, brSeen, brCount>>

shVars == <<shWrote, shPipe, shBuf, shOut, shRun>>

rtVars == <<rtAttempt, rtDelay, rtSleep, rtClock, rtBoundAt, rtResult>>

rgVars == <<rgByName, rgByUrl, rgCalls, rgUuid>>

baVars == <<baSent, baQueue, baSocket, baOpen, baRun>>

lmVars == <<lmSessions, lmTurn, lmCancel, lmDropped, lmEvents, lmTask, lmOut,
            lmHandler, lmAsked, lmAfter, lmCancelled>>

pmVars == <<pmRequest, pmAnswers, pmHistory, pmActor, pmCount>>

rcVars == <<rcRecommended, rcConfig, rcDiff, rcApplied, rcBefore, rcLast>>

appVars == <<lmVars, pmVars, rcVars>>

xtVars == <<rgVars, baVars, appVars>>

coreVars == <<hcVars, enVars, cdVars, mcVars, brVars, shVars, rtVars>>

rgOthers == <<coreVars, baVars, appVars>>

baOthers == <<coreVars, rgVars, appVars>>

lmOthers == <<coreVars, rgVars, baVars, pmVars, rcVars>>

pmOthers == <<coreVars, rgVars, baVars, lmVars, rcVars>>

rcOthers == <<coreVars, rgVars, baVars, lmVars, pmVars>>

mbVars == <<brVars, shVars, rtVars, xtVars>>

vars == <<hcVars, enVars, cdVars, mcVars, mbVars>>

-----------------------------------------------------------------------------
(***************************************************************************)
(* Handler chain: scp/src/jsonrpc/handlers.rs                              *)
(***************************************************************************)

\* Number of messages dispatched through the handler chain in one run.
MaxDispatch == 2

InternalErrorCode == -32603

Methods == {"initialize", "session/prompt", "session/update"}

NoMsg == [type |-> "none", id |-> 0, method |-> "", okParams |-> TRUE]

\* An inbound request or notification as the engine hands it to the chain:
\* the context (id and method; id 0 for a notification) and the params, of
\* which only whether they decode is kept.
InboundMsgs ==
    [type : {"request"}, id : 1..2, method : Methods, okParams : BOOLEAN]
      \cup [type : {"notification"}, id : {0}, method : Methods, okParams : BOOLEAN]

\* The message context a handler receives.
CxOf(msg) == [type |-> msg.type, id |-> msg.id, method |-> msg.method]

\* R::parse_request / N::parse_notification: None when the method is not
\* the type's, Some(Err) when the params do not decode, Some(Ok) otherwise.
ParseTyped(handlerMethod, method, okParams) ==
    IF method # handlerMethod THEN "none"
    ELSE IF okParams THEN "ok" ELSE "err"

\* The primitive handlers; cbFails: the user callback returns Err.
PrimitiveHandlers ==
    [kind : {"request", "notification"}, method : Methods, cbFails : BOOLEAN]
      \cup [kind : {"all"}, method : {""}, cbFails : BOOLEAN]
      \cup [kind : {"null"}, method : {""}, cbFails : {FALSE}]

\* JsonRpcHandler::handle_request / handle_notification of a primitive
\* handler on context cx: the result and the context handed back.
HandlePrimitive(h, cx, okParams) ==
    LET typed == ParseTyped(h.method, cx.method, okParams)
        ran   == IF h.cbFails THEN "Err" ELSE "Yes"
        byParse == IF typed = "ok" THEN ran
                   ELSE IF typed = "err" THEN "Err" ELSE "No"
    IN  CASE h.kind = "all" ->
               [result |-> IF okParams THEN ran ELSE "Err", cx |-> cx]
          [] h.kind = "null" -> [result |-> "No", cx |-> cx]
          [] h.kind = "request" /\ cx.type = "request" ->
               [result |-> byParse, cx |-> cx]
          [] h.kind = "notification" /\ cx.type = "notification" ->
               [result |-> byParse, cx |-> cx]
          [] OTHER -> [result |-> "No", cx |-> cx]

\* A call record: which handler was invoked, with which context and params.
Call(name, cx, okParams) == [handler |-> name, cx |-> cx, okParams |-> okParams]

\* The inner chain of the tree: ChainHandler over two primitive handlers.
\* Returns the result, the context handed back and the calls made.
HandleInner(c, name, cx, okParams) ==
    LET r1 == HandlePrimitive(c.h1, cx, okParams)
        c1 == <<Call(name \o ".1", cx, okParams)>>
    IN  IF r1.result = "No"
          THEN LET r2 == HandlePrimitive(c.h2, r1.cx, okParams)
               IN  [result |-> r2.result, cx |-> r2.cx,
                    calls |-> c1 \o <<Call(name \o ".2", r1.cx, okParams)>>]
          ELSE [result |-> r1.result, cx |-> r1.cx, calls |-> c1]

\* A handler that is either primitive or itself a chain.
HandleNode(h, name, cx, okParams) ==
    IF h.kind = "chain"
      THEN LET r == HandleInner(h, name, cx, okParams)
           IN  [result |-> r.result, cx |-> r.cx,
                calls |-> <<Call(name, cx, okParams)>> \o r.calls]
      ELSE LET r == HandlePrimitive(h, cx, okParams)
           IN  [result |-> r.result, cx |-> r.cx,
                calls |-> <<Call(name, cx, okParams)>>]

\* A chain that invokes its second handler whatever the first one returned.
ChainHandleAlwaysSecond(c, cx, okParams) ==
    LET r1 == HandleNode(c.h1, "H1", cx, okParams)
        r2 == HandleNode(c.h2, "H2", cx, okParams)
    IN  [result |-> IF r1.result = "No" THEN r2.result ELSE r1.result,
         h1 |-> r1.result, calls |-> r1.calls \o r2.calls]

\* ChainHandler::handle_request and ChainHandler::handle_notification:
\*   match self.handler1.handle(cx, params).await? {
\*       Handled::Yes => Ok(Handled::Yes),
\*       Handled::No(cx) => self.handler2.handle(cx, params).await }
ChainHandle(c, cx, okParams) ==
    LET r1 == HandleNode(c.h1, "H1", cx, okParams)
    IN  CASE r1.result = "Err" ->
               [result |-> "Err", h1 |-> "Err", calls |-> r1.calls]
          [] r1.result = "Yes" ->
               [result |-> "Yes", h1 |-> "Yes", calls |-> r1.calls]
          [] r1.result = "No" ->
               LET r2 == HandleNode(c.h2, "H2", r1.cx, okParams)
               IN  [result |-> r2.result, h1 |-> "No",
                    calls |-> r1.calls \o r2.calls]

\* The handlers a run installs: H = chain(H1, H2) with H1 primitive or a
\* chain of two primitives, as on_receive builds them.
SomeHandlers ==
    { h \in PrimitiveHandlers :
        \/ h.kind = "null"
        \/ h.kind = "all" /\ ~h.cbFails
        \/ h.kind = "request" /\ h.method = "initialize"
        \/ h.kind = "request" /\ h.method = "session/prompt" /\ ~h.cbFails
        \/ h.kind = "notification" /\ h.method = "session/update" }

InnerChains ==
    { [kind |-> "chain", h1 |-> a, h2 |-> b] :
        a \in {h \in SomeHandlers : h.kind = "request"},
        b \in {h \in SomeHandlers : h.kind = "notification"} }

RootChains ==
    [kind : {"chain"}, h1 : SomeHandlers \cup InnerChains, h2 : SomeHandlers]

HcInit ==
    /\ hcChain \in RootChains
    /\ hcMsg = NoMsg
    /\ hcCalls = << >>
    /\ hcResult = [result |-> "none", h1 |-> "none"]
    /\ hcCount = 0
    /\ hcError = [code |-> 0, typed |-> FALSE]
    /\ hcReply = << >>

HcIdle ==
    /\ hcChain = [kind |-> "null", method |-> "", cbFails |-> FALSE]
    /\ hcMsg = NoMsg
    /\ hcCalls = << >>
    /\ hcResult = [result |-> "none", h1 |-> "none"]
    /\ hcCount = 0
    /\ hcError = [code |-> 0, typed |-> FALSE]
    /\ hcReply = << >>

\* The errors a user callback returns: one made from some other failure,
\* which carries the internal-error code, or one the handler chose.
CallbackErrors ==
    { [code |-> InternalErrorCode, typed |-> FALSE],
      [code |-> -32602, typed |-> TRUE] }

\* Some(Err(err)) of parse_request / parse_notification: json_cast failed.
ParseError == [code |-> -32700, typed |-> TRUE]

\* A response line for the message: code 0 for a result.
ReplyTo(msg, code) == << [id |-> msg.id, code |-> code] >>

\* An end of the chain that drops whatever no handler took.
OtherwiseSilent(msg) == << >>

\* The end of the chain for a message no handler took: an unmatched
\* request is answered method-not-found, an unmatched notification is
\* logged.
Otherwise(msg) ==
    IF msg.type = "request" THEN ReplyTo(msg, -32601) ELSE << >>

\* A conversion that answers method-not-found whatever the error was.
ErrorResponseMethodNotFound(msg, err) == ReplyTo(msg, -32601)

\* The response made of an acp::Error keeps its code.
ErrorResponse(msg, err) == ReplyTo(msg, err.code)

\* What is written back once the root handler has returned: the result the
\* callback responded with, the fallback, or the error converted to a
\* response.  A notification has no response.
Completion(msg, result, err) ==
    IF msg.type = "notification" THEN << >>
    ELSE CASE result = "Yes" -> ReplyTo(msg, 0)
           [] result = "No" -> Otherwise(msg)
           [] OTHER -> ErrorResponse(msg, err)

\* The engine hands one inbound request or notification to the chain; err
\* is the error the user callback returns if it is one that fails.
Dispatch(msg, err) ==
    /\ hcCount < MaxDispatch
    /\ LET r == ChainHandle(hcChain, CxOf(msg), msg.okParams)
           e == IF r.result # "Err" THEN [code |-> 0, typed |-> FALSE]
                ELSE IF msg.okParams THEN err ELSE ParseError
       IN  /\ hcCalls' = r.calls
           /\ hcResult' = [result |-> r.result, h1 |-> r.h1]
           /\ hcError' = e
           /\ hcReply' = Completion(msg, r.result, e)
    /\ hcMsg' = msg
    /\ hcCount' = hcCount + 1
    /\ UNCHANGED <<hcChain, enVars, cdVars, mcVars, mbVars>>

HcNext == \E msg \in InboundMsgs, err \in CallbackErrors : Dispatch(msg, err)

-----------------------------------------------------------------------------
(***************************************************************************)
(* One JSON-RPC connection: the id allocator, the pending-response map,    *)
(* the response futures and the request contexts of the engine             *)
(* (scp/src/jsonrpc.rs).  The local end is the engine; the peer answers    *)
(* in any order, may answer an id twice and may answer ids nobody asked.   *)
(***************************************************************************)

\* Outbound requests issued on the connection in one run.
MaxOutReq == 2
\* Inbound requests the peer sends in one run.
MaxInReq == 1
\* Responses the peer writes in one run.
MaxPeerResp == 3

ConnectionClosedCode == -32000

OutIds == 0..(MaxOutReq - 1)
InIds == 1..MaxInReq

NoResp == [type |-> "none", id |-> 0, code |-> 0]

\* A response line: the id it answers and the error code (0 for a result).
Response(id, code) == [type |-> "response", id |-> id, code |-> code]

RequestLine(id) == [type |-> "request", id |-> id, code |-> 0]

\* The value a future resolves with when the connection closes.
ClosedError(id) == Response(id, ConnectionClosedCode)

Unissued == [state |-> "unissued", resp |-> NoResp, dropped |-> FALSE]

EnInit ==
    /\ enNextId = 0
    /\ enPending = {}
    /\ enFuture = [id \in OutIds |-> Unissued]
    /\ enIn = << >>
    /\ enPeerResps = 0
    /\ enAnswered = {}
    /\ enStray = 0
    /\ enDiscarded = 0
    /\ enCx = [id \in InIds |-> "none"]
    /\ enResponses = [id \in InIds |-> << >>]
    /\ enClosed = FALSE
    /\ enAtClose = {}
    /\ wrIssued = << >>
    /\ wrQueue = << >>
    /\ wrCur = << >>
    /\ wrStream = << >>
    /\ wrPartial = << >>
    /\ wrSeen = << >>

\* send_request: allocate the next id, enter it in the pending map, write
\* the request, return the future.
SendRequest ==
    /\ ~enClosed
    /\ enNextId \in OutIds
    /\ enNextId' = enNextId + 1
    /\ enPending' = enPending \cup {enNextId}
    /\ enFuture' = [enFuture EXCEPT ![enNextId].state = "waiting"]
    /\ UNCHANGED <<enIn, enPeerResps, enAnswered, enStray, enDiscarded, enCx,
                   enResponses, enClosed, enAtClose, wrVars, hcVars, cdVars, mcVars, mbVars>>

\* The caller drops the future of a request that is still waiting.
DropFuture(id) ==
    /\ enFuture[id].state = "waiting"
    /\ ~enFuture[id].dropped
    /\ enFuture' = [enFuture EXCEPT ![id].dropped = TRUE]
    /\ UNCHANGED <<enNextId, enPending, enIn, enPeerResps, enAnswered, enStray,
                   enDiscarded, enCx, enResponses, enClosed, enAtClose,
                   wrVars, hcVars, cdVars, mcVars, mbVars>>

\* The peer writes a response: to a request it has been sent, in the order
\* it chooses, possibly a second time, or to an id that was never issued.
PeerRespond(id) ==
    /\ ~enClosed
    /\ enPeerResps < MaxPeerResp
    /\ enPeerResps' = enPeerResps + 1
    /\ enIn' = Append(enIn, Response(id, 0))
    /\ UNCHANGED <<enNextId, enPending, enFuture, enAnswered, enStray,
                   enDiscarded, enCx, enResponses, enClosed, enAtClose,
                   wrVars, hcVars, cdVars, mcVars, mbVars>>

\* The peer writes a request under the next id of its own allocator.
PeerRequest ==
    /\ ~enClosed
    /\ LET sent == { i \in InIds : enCx[i] # "none" \/
                       \E k \in 1..Len(enIn) :
                            enIn[k].type = "request" /\ enIn[k].id = i }
           id == Cardinality(sent) + 1
       IN  /\ id \in InIds
           /\ enIn' = Append(enIn, RequestLine(id))
    /\ UNCHANGED <<enNextId, enPending, enFuture, enPeerResps, enAnswered,
                   enStray, enDiscarded, enCx, enResponses, enClosed, enAtClose,
                   wrVars, hcVars, cdVars, mcVars, mbVars>>

\* A reader that completes the oldest waiting future, whatever id the
\* response carries.
CompleteOldest(r) ==
    IF enPending # {}
      THEN LET id == CHOOSE i \in enPending : \A j \in enPending : i <= j
           IN  /\ enPending' = enPending \ {id}
               /\ enFuture' = [enFuture EXCEPT ![id].state = "resolved",
                                               ![id].resp = r]
               /\ UNCHANGED enDiscarded
      ELSE /\ enDiscarded' = enDiscarded + 1
           /\ UNCHANGED <<enPending, enFuture>>

\* A reader that keeps the map entry of a request whose future was dropped.
CompleteUnlessDropped(r) ==
    IF r.id \in enPending /\ ~enFuture[r.id].dropped
      THEN /\ enPending' = enPending \ {r.id}
           /\ enFuture' = [enFuture EXCEPT ![r.id].state = "resolved",
                                           ![r.id].resp = r]
           /\ UNCHANGED enDiscarded
      ELSE /\ enDiscarded' = enDiscarded + 1
           /\ UNCHANGED <<enPending, enFuture>>

\* Inbound dispatch of a response: look the id up in the pending map; take
\* the entry out and complete its future, or warn when the id is unknown.
CompleteResponse(r) ==
    IF r.id \in enPending
      THEN /\ enPending' = enPending \ {r.id}
           /\ enFuture' = [enFuture EXCEPT ![r.id].state = "resolved",
                                           ![r.id].resp = r]
           /\ UNCHANGED enDiscarded
      ELSE /\ enDiscarded' = enDiscarded + 1
           /\ UNCHANGED <<enPending, enFuture>>

\* The reader task reads the next line the peer wrote and dispatches it: a
\* response goes to the pending map, a request gets a fresh request context.
\* enAnswered and enStray record what was read, whatever the dispatch does.
ReadLine ==
    /\ ~enClosed
    /\ enIn # << >>
    /\ LET line == Head(enIn)
       IN  IF line.type = "response"
             THEN /\ CompleteResponse(line)
                  /\ enAnswered' = IF line.id \in enPending
                                     THEN enAnswered \cup {line.id} ELSE enAnswered
                  /\ enStray' = IF line.id \in enPending THEN enStray ELSE enStray + 1
                  /\ UNCHANGED enCx
             ELSE /\ enCx' = [enCx EXCEPT ![line.id] = "open"]
                  /\ UNCHANGED <<enPending, enFuture, enDiscarded, enAnswered, enStray>>
    /\ enIn' = Tail(enIn)
    /\ UNCHANGED <<enNextId, enPeerResps, enResponses, enClosed, enAtClose,
                   wrVars, hcVars, cdVars, mcVars, mbVars>>

\* A request context whose drop sends nothing.
SilentDrop(id) ==
    /\ enCx' = [enCx EXCEPT ![id] = "dropped"]
    /\ UNCHANGED enResponses

\* A request context is consumed by respond or respond_with_error: one
\* response line is written and the context is gone.
RespondCx(id, code) ==
    /\ enResponses' = [enResponses EXCEPT ![id] = Append(@, code)]
    /\ enCx' = [enCx EXCEPT ![id] = "responded"]

\* A request context is dropped without a response: the engine answers the
\* request with a generic internal error.
DropCx(id) ==
    /\ enResponses' = [enResponses EXCEPT ![id] = Append(@, InternalErrorCode)]
    /\ enCx' = [enCx EXCEPT ![id] = "dropped"]

\* The handler of an inbound request responds with a result or an error.
HandlerRespond(id, code) ==
    /\ ~enClosed
    /\ enCx[id] = "open"
    /\ RespondCx(id, code)
    /\ UNCHANGED <<enNextId, enPending, enFuture, enIn, enPeerResps, enAnswered,
                   enStray, enDiscarded, enClosed, enAtClose,
                   wrVars, hcVars, cdVars, mcVars, mbVars>>

\* The handler of an inbound request returns and lets its context go.
HandlerDrop(id) ==
    /\ ~enClosed
    /\ enCx[id] = "open"
    /\ DropCx(id)
    /\ UNCHANGED <<enNextId, enPending, enFuture, enIn, enPeerResps, enAnswered,
                   enStray, enDiscarded, enClosed, enAtClose,
                   wrVars, hcVars, cdVars, mcVars, mbVars>>

\* A teardown that fails the waiters with a generic internal error.
FailPendingInternal ==
    [id \in OutIds |->
        IF id \in enPending
          THEN [enFuture[id] EXCEPT !.state = "resolved",
                                    !.resp = Response(id, InternalErrorCode)]
          ELSE enFuture[id]]

\* Teardown fails every waiter with the connection-closed error.
FailPending ==
    [id \in OutIds |->
        IF id \in enPending
          THEN [enFuture[id] EXCEPT !.state = "resolved", !.resp = ClosedError(id)]
          ELSE enFuture[id]]

\* A stream closes: the pending futures fail, the map is emptied, the handler
\* tasks are aborted and nothing is read or written any more.
Close ==
    /\ ~enClosed
    /\ enClosed' = TRUE
    /\ enAtClose' = enPending
    /\ enFuture' = FailPending
    /\ enPending' = {}
    /\ enCx' = [id \in InIds |-> IF enCx[id] = "open" THEN "aborted" ELSE enCx[id]]
    /\ UNCHANGED <<enNextId, enIn, enPeerResps, enAnswered, enStray, enDiscarded,
                   enResponses, wrVars, hcVars, cdVars, mcVars, mbVars>>

EnNext ==
    \/ SendRequest
    \/ \E id \in OutIds : DropFuture(id)
    \/ \E id \in 0..MaxOutReq : PeerRespond(id)
    \/ PeerRequest
    \/ ReadLine
    \/ \E id \in InIds, code \in {0, InternalErrorCode} : HandlerRespond(id, code)
    \/ \E id \in InIds : HandlerDrop(id)
    \/ Close

Issued == { id \in OutIds : enFuture[id].state # "unissued" }

-----------------------------------------------------------------------------
(***************************************************************************)
(* Writes on one connection: the tasks that send, the writer, the stream   *)
(***************************************************************************)

MaxWrites == 3
MaxTasks == 2
LineParts == 2

\* The parts a line is written in; the last one ends the line.
Parts(line) == [k \in 1..LineParts |-> [line |-> line, part |-> k]]

\* A task issues a write on the connection: a request, a notification or a
\* response.  The line joins the queue of the writer.
Issue(task, kind) ==
    /\ Len(wrIssued) < MaxWrites
    /\ LET line == [n |-> Len(wrIssued) + 1, task |-> task, kind |-> kind] IN
         /\ wrIssued' = Append(wrIssued, line)
         /\ wrQueue' = Append(wrQueue, line)
    /\ UNCHANGED <<wrCur, wrStream, wrPartial, wrSeen, rwVars, hcVars, cdVars, mcVars, mbVars>>

\* Which line of the queue the writer takes next.
NextToWriteNewest(q) == Len(q)

NextToWrite(q) == 1

\* The writer puts the next part on the stream: of the line it holds, or of
\* the line it takes from the queue when it holds none.  It holds a line
\* until its last part is written.
Write ==
    /\ wrCur # << >> \/ wrQueue # << >>
    /\ LET k == NextToWrite(wrQueue)
           cur == IF wrCur # << >> THEN wrCur[1]
                                   ELSE [line |-> wrQueue[k], part |-> 1]
       IN /\ wrStream' = Append(wrStream, Parts(cur.line)[cur.part])
          /\ wrCur' = IF cur.part = LineParts
                        THEN << >>
                        ELSE << [cur EXCEPT !.part = @ + 1] >>
          /\ wrQueue' = IF wrCur # << >>
                          THEN wrQueue
                          ELSE [i \in 1..(Len(wrQueue) - 1) |->
                                  IF i < k THEN wrQueue[i] ELSE wrQueue[i + 1]]
    /\ UNCHANGED <<wrIssued, wrPartial, wrSeen, rwVars, hcVars, cdVars, mcVars, mbVars>>

\* The peer reads the next part from the stream; a part that ends a line
\* makes everything read since the previous end of line one observed line.
PeerRead ==
    /\ wrStream # << >>
    /\ wrStream' = Tail(wrStream)
    /\ IF Head(wrStream).part = LineParts
         THEN /\ wrSeen' = Append(wrSeen, Append(wrPartial, Head(wrStream)))
              /\ wrPartial' = << >>
         ELSE /\ wrPartial' = Append(wrPartial, Head(wrStream))
              /\ UNCHANGED wrSeen
    /\ UNCHANGED <<wrIssued, wrQueue, wrCur, rwVars, hcVars, cdVars, mcVars, mbVars>>

WrNext ==
    \/ \E task \in 1..MaxTasks,
          kind \in {"request", "notification", "response"} : Issue(task, kind)
    \/ Write
    \/ PeerRead

-----------------------------------------------------------------------------
(***************************************************************************)
(* Conductor: conductor/src/conductor.rs                                   *)
(*                                                                         *)
(* The conductor holds one JSON-RPC connection to the editor and one to    *)
(* each component.  A reader per connection turns inbound requests and     *)
(* notifications into ConductorMessages on conductor_rx and completes the  *)
(* response futures of that connection; the main loop takes messages off   *)
(* conductor_rx and writes them to the neighbour; a task spawned for each  *)
(* forwarded request waits for the response and answers the requester.     *)
(* The components are pure forwarders in front of an agent.                *)
(***************************************************************************)

\* Longest component chain, the agent included.
MaxN == 3

\* Number of requests and notifications the editor and the agent originate
\* besides the initialize request.
MaxTraffic == 1

EditorLink == -1

Components == 0..(MaxN - 1)

Links == {EditorLink} \cup Components

NoError == [code |-> 0, component |-> -1]

\* "component <i> is not a proxy"
NotProxyError(i) == [code |-> InternalErrorCode, component |-> i]

\* jsonrpcmsg::Error::internal_error()
InternalErrorOmitted == NoError
InternalError == [code |-> InternalErrorCode, component |-> -1]

NoLine == [type |-> "none"]

ClientToAgentMethods == {"initialize", "session/prompt", "session/cancel"}

MethodOf(l, type) ==
    IF l = EditorLink
      THEN IF type = "request" THEN "session/prompt" ELSE "session/cancel"
      ELSE IF type = "request" THEN "session/request_permission"
                               ELSE "session/update"

\* One JSON-RPC line.  uid names the payload, src the endpoint that wrote the
\* line to the conductor, wrap whether it travels inside
\* _proxy/successor/send/*, proxy the meta.symposium.proxy flag.
Message(type, method, id, uid, src, wrap, proxy, error) ==
    [type |-> type, method |-> method, id |-> id, uid |-> uid, src |-> src,
     wrap |-> wrap, proxy |-> proxy, error |-> error]

\* The handlers installed on the editor connection and on each component
\* connection: which ConductorMessage an inbound line becomes.
ConductorMessage(l, m) ==
    [kind |-> IF l = EditorLink THEN "ClientToAgentViaProxyChain"
              ELSE IF m.wrap = "none" THEN "ComponentToItsClientMessage"
              ELSE IF m.type = "request"
                     THEN "ComponentToItsSuccessorSendRequest"
                     ELSE "ComponentToItsSuccessorSendNotification",
     component_index |-> l,
     message |-> m]

ItsClientAlwaysFirst(i) == IF i = 0 THEN EditorLink ELSE 0

ItsClient(i) == IF i = 0 THEN EditorLink ELSE i - 1

HasSuccessor(i) == i + 1 < cdN

OutgoingIdOfRequester(to, m) == m.id

\* to_cx.send_request: the id comes from the allocator of the outgoing link.
OutgoingId(to, m) == cdNextId[to]

OfferProxyNeverCleared(to, m) == m.proxy \/ (m.method = "initialize" /\ to + 1 < cdN)

\* The proxy flag of a line forwarded to component `to`: an initialize offers
\* the proxy role exactly to the components that have a successor.
OfferProxy(to, m) == IF m.method = "initialize" THEN to + 1 < cdN ELSE m.proxy

\* The component that was offered the proxy role answered initialize
\* successfully without confirming it.
RefusedProxy(t) == t.offered /\ t.value.error = NoError /\ ~t.value.proxy

CheckProxyPassThrough(t, r) == r

\* What the requester of a forwarded request is answered with.
CheckProxy(t, r) ==
    IF RefusedProxy(t)
      THEN [r EXCEPT !.error = NotProxyError(t.link), !.proxy = FALSE]
      ELSE r

CdIdle ==
    /\ cdN = 1
    /\ cdAccept = [i \in Components |-> TRUE]
    /\ cdToCond = [l \in Links |-> <<>>]
    /\ cdRx = <<>>
    /\ cdNextId = [l \in Links |-> 0]
    /\ cdPending = {}
    /\ cdEndNext = [l \in Links |-> 0]
    /\ cdOwed = [l \in Links |-> {}]
    /\ cdPxPend = [l \in Links |-> {}]
    /\ cdObs = [l \in Links |-> <<>>]
    /\ cdWrote = [l \in Links |-> <<>>]
    /\ cdTraffic = 0
    /\ cdEdInit = "none"
    /\ cdFailed = FALSE
    /\ cdSpawned = 1
    /\ cdDown = {}
    /\ cdClosed = {}
    /\ cdTerminated = FALSE

\* Conductor::run with 1..MaxN components, each proxy either confirming the
\* proxy role or not, at the point where every component has been spawned
\* and serve begins.
CdInit ==
    /\ cdN \in 1..MaxN
    /\ cdAccept \in { f \in [Components -> BOOLEAN] :
                        \A i \in Components : i + 1 >= cdN => f[i] }
    /\ cdToCond = [l \in Links |-> <<>>]
    /\ cdRx = <<>>
    /\ cdNextId = [l \in Links |-> 0]
    /\ cdPending = {}
    /\ cdEndNext = [l \in Links |-> 0]
    /\ cdOwed = [l \in Links |-> {}]
    /\ cdPxPend = [l \in Links |-> {}]
    /\ cdObs = [l \in Links |-> <<>>]
    /\ cdWrote = [l \in Links |-> <<>>]
    /\ cdTraffic = 0
    /\ cdEdInit = "none"
    /\ cdFailed = FALSE
    /\ cdSpawned = cdN
    /\ cdDown = {}
    /\ cdClosed = {}
    /\ cdTerminated = FALSE

AgentLink == cdN - 1

\* The main loop of serve is running: launch_proxy has spawned every
\* component and run has not returned.
Serving == cdSpawned = cdN /\ ~cdTerminated

\* What a future of a closed connection resolves to.
ConnectionClosed == [code |-> ConnectionClosedCode, component |-> -1]

\* The agent has been contacted: it has read the initialize request.
AgentInitialized ==
    \E k \in DOMAIN cdObs[AgentLink] : cdObs[AgentLink][k].method = "initialize"

\* Endpoint l writes line m on its connection to the conductor.
EndpointWrite(l, m) ==
    /\ cdToCond' = [cdToCond EXCEPT ![l] = Append(@, m)]
    /\ cdWrote' = [cdWrote EXCEPT ![l] = Append(@, m)]

\* The editor opens the session.
EditorInitialize ==
    /\ cdEdInit = "none"
    /\ EditorLink \notin cdDown
    /\ EndpointWrite(EditorLink,
         Message("request", "initialize", cdEndNext[EditorLink], 0,
                 EditorLink, "none", FALSE, NoError))
    /\ cdEndNext' = [cdEndNext EXCEPT ![EditorLink] = @ + 1]
    /\ cdEdInit' = "sent"
    /\ UNCHANGED <<cdN, cdAccept, cdRx, cdNextId, cdPending,
                   cdOwed, cdPxPend, cdObs, cdTraffic, cdFailed, flVars, hcVars, enVars, mcVars, mbVars>>

\* The payload of the next line endpoint l originates: the editor's are
\* numbered from 1, the agent's from MaxTraffic + 1; 0 is the initialize.
NextUid(l) ==
    (IF l = EditorLink THEN 0 ELSE MaxTraffic)
      + Cardinality({ k \in DOMAIN cdWrote[l] :
                        cdWrote[l][k].type # "response" /\ cdWrote[l][k].uid # 0 })
      + 1

\* The editor or the agent originates a request or a notification.
EndpointSend(l, type) ==
    /\ l \in {EditorLink, AgentLink}
    /\ l \notin cdDown
    /\ IF l = EditorLink THEN cdEdInit \in {"ok", "failed"} ELSE AgentInitialized
    /\ cdTraffic < MaxTraffic
    /\ cdTraffic' = cdTraffic + 1
    /\ EndpointWrite(l,
         Message(type, MethodOf(l, type),
                 IF type = "request" THEN cdEndNext[l] ELSE -1,
                 NextUid(l), l, "none", FALSE, NoError))
    /\ cdEndNext' = IF type = "request"
                      THEN [cdEndNext EXCEPT ![l] = @ + 1]
                      ELSE cdEndNext
    /\ UNCHANGED <<cdN, cdAccept, cdRx, cdNextId, cdPending,
                   cdOwed, cdPxPend, cdObs, cdEdInit, cdFailed, flVars, hcVars, enVars, mcVars, mbVars>>

\* The editor or the agent answers a request it has read.
EndpointRespond(l, o) ==
    /\ l \in {EditorLink, AgentLink}
    /\ l \notin cdDown
    /\ o \in cdOwed[l]
    /\ cdOwed' = [cdOwed EXCEPT ![l] = @ \ {o}]
    /\ EndpointWrite(l,
         Message("response", "", o.id, o.uid, l, "none", FALSE, NoError))
    /\ UNCHANGED <<cdN, cdAccept, cdRx, cdNextId, cdPending,
                   cdEndNext, cdPxPend, cdObs, cdTraffic, cdEdInit, cdFailed,
                   flVars, hcVars, enVars, mcVars, mbVars>>

\* The editor or the agent takes the line m the conductor wrote to it.
EndpointTakes(l, m) ==
    /\ cdOwed' = IF m.type = "request"
                   THEN [cdOwed EXCEPT ![l] = @ \cup {[id |-> m.id, uid |-> m.uid]}]
                   ELSE cdOwed
    /\ cdEdInit' = IF l = EditorLink /\ m.type = "response" /\ m.uid = 0
                     THEN IF m.error = NoError THEN "ok" ELSE "failed"
                     ELSE cdEdInit
    /\ UNCHANGED <<cdToCond, cdWrote, cdPxPend, cdEndNext>>

\* Proxy i takes the line m the conductor wrote to it and forwards it:
\* editor-to-agent traffic to its successor, agent-to-editor traffic on its
\* client-facing side, a response to the request it answers.  A proxy that
\* does not confirm the proxy role answers initialize itself.
ProxyForwards(i, m) ==
    LET wrap == IF m.method \in ClientToAgentMethods
                  THEN "successor_send" ELSE "none"
    IN
      /\ CASE m.type = "response" ->
                /\ \E p \in cdPxPend[i] :
                     /\ p.myId = m.id
                     /\ cdPxPend' = [cdPxPend EXCEPT ![i] = @ \ {p}]
                     /\ EndpointWrite(i,
                          Message("response", "", p.origId, m.uid, i, "none",
                                  (p.method = "initialize" /\ m.error = NoError)
                                     \/ m.proxy,
                                  m.error))
                /\ UNCHANGED cdEndNext
           [] m.type = "request" /\ m.method = "initialize" /\ ~cdAccept[i] ->
                /\ EndpointWrite(i,
                     Message("response", "", m.id, m.uid, i, "none", FALSE, NoError))
                /\ UNCHANGED <<cdPxPend, cdEndNext>>
           [] m.type = "request" /\ ~(m.method = "initialize" /\ ~cdAccept[i]) ->
                /\ EndpointWrite(i,
                     Message("request", m.method, cdEndNext[i], m.uid, i, wrap,
                             m.proxy, NoError))
                /\ cdPxPend' = [cdPxPend EXCEPT ![i] = @ \cup
                                  {[myId |-> cdEndNext[i], origId |-> m.id,
                                    method |-> m.method]}]
                /\ cdEndNext' = [cdEndNext EXCEPT ![i] = @ + 1]
           [] OTHER ->
                /\ EndpointWrite(i,
                     Message("notification", m.method, -1, m.uid, i, wrap,
                             FALSE, NoError))
                /\ UNCHANGED <<cdPxPend, cdEndNext>>
      /\ UNCHANGED <<cdOwed, cdEdInit>>

\* The conductor writes line m on link l.  Writes on one connection reach
\* the peer in the order written; the peer takes the line at once, and what
\* it writes back waits on its connection until the reader gets to it.
\* Nobody takes a line written to a peer that has gone.
Deliver(l, m) ==
    IF l \in cdDown
      THEN UNCHANGED <<cdObs, cdOwed, cdEdInit, cdToCond, cdWrote, cdPxPend,
                       cdEndNext>>
      ELSE /\ cdObs' = [cdObs EXCEPT ![l] = Append(@, m)]
           /\ IF l \in {EditorLink, AgentLink} THEN EndpointTakes(l, m)
                                               ELSE ProxyForwards(l, m)

\* The reader of the connection to l takes the next line: a request or a
\* notification goes through the handlers onto conductor_rx, a response
\* completes the future of the request it answers.
ReadFromLink(l) ==
    /\ Serving
    /\ l \notin cdClosed
    /\ cdToCond[l] # <<>>
    /\ LET m == Head(cdToCond[l]) IN
         /\ cdToCond' = [cdToCond EXCEPT ![l] = Tail(@)]
         /\ IF m.type = "response"
              THEN /\ cdPending' =
                        { IF t.link = l /\ t.id = m.id /\ t.state = "waiting"
                            THEN [t EXCEPT !.state = "ready", !.value = m]
                            ELSE t : t \in cdPending }
                   /\ UNCHANGED cdRx
              ELSE /\ cdRx' = Append(cdRx, ConductorMessage(l, m))
                   /\ UNCHANGED cdPending
    /\ UNCHANGED <<cdN, cdAccept, cdNextId, cdEndNext, cdOwed, cdPxPend, cdObs,
                   cdWrote, cdTraffic, cdEdInit, cdFailed, flVars, hcVars, enVars, mcVars, mbVars>>

\* send_request_and_forward_response, and the successor branch that does the
\* same with send_json_request: the request goes out on the link `to`, and a
\* task is spawned that will answer the requester on replyLink.  On a
\* connection already torn down the future resolves at once.
ForwardRequest(to, m, replyLink) ==
    /\ Deliver(to, [m EXCEPT !.id = OutgoingId(to, m),
                             !.proxy = OfferProxy(to, m)])
    /\ cdNextId' = [cdNextId EXCEPT ![to] = @ + 1]
    /\ cdPending' = cdPending \cup
                      {[link |-> to, id |-> OutgoingId(to, m),
                        replyLink |-> replyLink, replyId |-> m.id,
                        uid |-> m.uid,
                        offered |-> m.method = "initialize" /\ OfferProxy(to, m),
                        state |-> IF to \in cdClosed THEN "ready" ELSE "waiting",
                        value |-> IF to \in cdClosed
                                    THEN Message("response", "", OutgoingId(to, m),
                                                 m.uid, to, "none", FALSE,
                                                 ConnectionClosed)
                                    ELSE NoLine]}

\* send_notification / send_json_notification on the link `to`.
ForwardNotification(to, m) ==
    /\ Deliver(to, m)
    /\ UNCHANGED <<cdNextId, cdPending>>

Forward(to, m, replyLink) ==
    IF m.type = "request" THEN ForwardRequest(to, m, replyLink)
                          ELSE ForwardNotification(to, m)

\* Main loop, ConductorMessage::ClientToAgentViaProxyChain.
RouteClientToAgent ==
    /\ Serving
    /\ cdRx # <<>>
    /\ Head(cdRx).kind = "ClientToAgentViaProxyChain"
    /\ Forward(0, Head(cdRx).message, EditorLink)
    /\ cdRx' = Tail(cdRx)
    /\ UNCHANGED <<cdN, cdAccept, cdTraffic, cdFailed, flVars, hcVars, enVars, mcVars, mbVars>>

\* Main loop, ConductorMessage::ComponentToItsClientMessage.
RouteComponentToItsClient ==
    /\ Serving
    /\ cdRx # <<>>
    /\ Head(cdRx).kind = "ComponentToItsClientMessage"
    /\ Forward(ItsClient(Head(cdRx).component_index), Head(cdRx).message,
               Head(cdRx).component_index)
    /\ cdRx' = Tail(cdRx)
    /\ UNCHANGED <<cdN, cdAccept, cdTraffic, cdFailed, flVars, hcVars, enVars, mcVars, mbVars>>

\* Main loop, ConductorMessage::ComponentToItsSuccessorSendRequest.
RouteSuccessorSendRequest ==
    /\ Serving
    /\ cdRx # <<>>
    /\ Head(cdRx).kind = "ComponentToItsSuccessorSendRequest"
    /\ LET i == Head(cdRx).component_index
           m == Head(cdRx).message
       IN IF HasSuccessor(i)
            THEN ForwardRequest(i + 1, m, i)
            ELSE /\ Deliver(i, Message("response", "", m.id, m.uid, i, "none",
                                        FALSE, InternalError))
                 /\ UNCHANGED <<cdNextId, cdPending>>
    /\ cdRx' = Tail(cdRx)
    /\ UNCHANGED <<cdN, cdAccept, cdTraffic, cdFailed, flVars, hcVars, enVars, mcVars, mbVars>>

\* Main loop, ConductorMessage::ComponentToItsSuccessorSendNotification.
RouteSuccessorSendNotification ==
    /\ Serving
    /\ cdRx # <<>>
    /\ Head(cdRx).kind = "ComponentToItsSuccessorSendNotification"
    /\ LET i == Head(cdRx).component_index
           m == Head(cdRx).message
       IN IF HasSuccessor(i)
            THEN ForwardNotification(i + 1, m)
            ELSE /\ Deliver(i, Message("notification", "error", -1, m.uid, i,
                                        "none", FALSE, InternalError))
                 /\ UNCHANGED <<cdNextId, cdPending>>
    /\ cdRx' = Tail(cdRx)
    /\ UNCHANGED <<cdN, cdAccept, cdTraffic, cdFailed, flVars, hcVars, enVars, mcVars, mbVars>>

\* The task spawned for a forwarded request: its response has arrived, and
\* the requester is answered under the id of its own request.
ForwardResponse(t) ==
    /\ Serving
    /\ t \in cdPending
    /\ t.state = "ready"
    /\ cdPending' = cdPending \ {t}
    /\ Deliver(t.replyLink, CheckProxy(t, [t.value EXCEPT !.id = t.replyId]))
    /\ cdFailed' = (cdFailed \/ RefusedProxy(t))
    /\ UNCHANGED <<cdN, cdAccept, cdRx, cdNextId, cdTraffic, flVars, hcVars, enVars, mcVars, mbVars>>

\* The last component of the chain writes _proxy/successor/send/request or
\* _proxy/successor/send/notification, once.
LastSendsToSuccessor(type) ==
    /\ AgentInitialized
    /\ AgentLink \notin cdDown
    /\ \A k \in DOMAIN cdWrote[AgentLink] : cdWrote[AgentLink][k].wrap = "none"
    /\ EndpointWrite(AgentLink,
         Message(type, MethodOf(EditorLink, type),
                 IF type = "request" THEN cdEndNext[AgentLink] ELSE -1,
                 NextUid(AgentLink), AgentLink, "successor_send", FALSE, NoError))
    /\ cdEndNext' = IF type = "request"
                      THEN [cdEndNext EXCEPT ![AgentLink] = @ + 1]
                      ELSE cdEndNext
    /\ UNCHANGED <<cdN, cdAccept, cdRx, cdNextId, cdPending, cdOwed, cdPxPend,
                   cdObs, cdTraffic, cdEdInit, cdFailed, flVars, hcVars, enVars,
                   mcVars, mbVars>>

CdNext ==
    \/ EditorInitialize
    \/ \E l \in Links, type \in {"request", "notification"} : EndpointSend(l, type)
    \/ \E l \in Links : \E o \in cdOwed[l] : EndpointRespond(l, o)
    \/ \E l \in Links : ReadFromLink(l)
    \/ RouteClientToAgent
    \/ RouteComponentToItsClient
    \/ RouteSuccessorSendRequest
    \/ RouteSuccessorSendNotification
    \/ \E t \in cdPending : ForwardResponse(t)

\* Conductor::run before any component has been spawned.
LaunchInit ==
    /\ cdN \in 1..MaxN
    /\ cdAccept \in { f \in [Components -> BOOLEAN] :
                        \A i \in Components : i + 1 >= cdN => f[i] }
    /\ cdToCond = [l \in Links |-> <<>>]
    /\ cdRx = <<>>
    /\ cdNextId = [l \in Links |-> 0]
    /\ cdPending = {}
    /\ cdEndNext = [l \in Links |-> 0]
    /\ cdOwed = [l \in Links |-> {}]
    /\ cdPxPend = [l \in Links |-> {}]
    /\ cdObs = [l \in Links |-> <<>>]
    /\ cdWrote = [l \in Links |-> <<>>]
    /\ cdTraffic = 0
    /\ cdEdInit = "none"
    /\ cdFailed = FALSE
    /\ cdSpawned = 0
    /\ cdDown = {}
    /\ cdClosed = {}
    /\ cdTerminated = FALSE

\* launch_proxy: the next component is spawned and pushed onto the list;
\* the editor connection is set up only when the last one has been.
LaunchProxy ==
    /\ ~cdTerminated
    /\ cdSpawned < cdN
    /\ cdSpawned' = cdSpawned + 1
    /\ UNCHANGED <<cdN, cdAccept, cdToCond, cdRx, cdNextId, cdPending,
                   cdEndNext, cdOwed, cdPxPend, cdObs, cdWrote, cdTraffic,
                   cdEdInit, cdFailed, cdDown, cdClosed, cdTerminated,
                   hcVars, enVars, mcVars, mbVars>>

\* launch_proxy: spawn() fails.  The error leaves launch_proxy through `?`,
\* then every enclosing with_client, then run; serve is never reached.
SpawnFails ==
    /\ ~cdTerminated
    /\ cdSpawned < cdN
    /\ cdTerminated' = TRUE
    /\ UNCHANGED <<cdN, cdAccept, cdToCond, cdRx, cdNextId, cdPending,
                   cdEndNext, cdOwed, cdPxPend, cdObs, cdWrote, cdTraffic,
                   cdEdInit, cdFailed, cdSpawned, cdDown, cdClosed,
                   hcVars, enVars, mcVars, mbVars>>

\* The peer on link l goes away: a spawned component's process dies, or the
\* editor disconnects.  What it had written can still be read.
PeerGone(l) ==
    /\ l \notin cdDown
    /\ l = EditorLink \/ (l >= 0 /\ l < cdSpawned)
    /\ cdDown' = cdDown \cup {l}
    /\ UNCHANGED <<cdN, cdAccept, cdToCond, cdRx, cdNextId, cdPending,
                   cdEndNext, cdOwed, cdPxPend, cdObs, cdWrote, cdTraffic,
                   cdEdInit, cdFailed, cdSpawned, cdClosed, cdTerminated,
                   hcVars, enVars, mcVars, mbVars>>

\* The reader of the connection to l reaches the end of the stream: the
\* connection is torn down and every future pending on it resolves with
\* the connection-closed error.
CloseLink(l) ==
    /\ Serving
    /\ l \in cdDown \ cdClosed
    /\ cdToCond[l] = <<>>
    /\ cdClosed' = cdClosed \cup {l}
    /\ cdPending' =
         { IF t.link = l /\ t.state = "waiting"
             THEN [t EXCEPT !.state = "ready",
                            !.value = Message("response", "", t.id, t.uid, l,
                                              "none", FALSE, ConnectionClosed)]
             ELSE t : t \in cdPending }
    /\ UNCHANGED <<cdN, cdAccept, cdToCond, cdRx, cdNextId,
                   cdEndNext, cdOwed, cdPxPend, cdObs, cdWrote, cdTraffic,
                   cdEdInit, cdFailed, cdSpawned, cdDown, cdTerminated,
                   hcVars, enVars, mcVars, mbVars>>

\* A torn-down connection ends the with_client it was serving, and with it
\* run.  The tasks spawned on the LocalSet that have not run yet never do;
\* the Child handles are dropped, which leaves the processes running.
Terminate ==
    /\ Serving
    /\ cdClosed # {}
    /\ cdTerminated' = TRUE
    /\ UNCHANGED <<cdN, cdAccept, cdToCond, cdRx, cdNextId, cdPending,
                   cdEndNext, cdOwed, cdPxPend, cdObs, cdWrote, cdTraffic,
                   cdEdInit, cdFailed, cdSpawned, cdDown, cdClosed,
                   hcVars, enVars, mcVars, mbVars>>

\* The component processes that are running.
Running == { i \in Components : i < cdSpawned /\ i \notin cdDown }

FaultNext ==
    \/ CdNext
    \/ LaunchProxy
    \/ SpawnFails
    \/ \E l \in Links : PeerGone(l)
    \/ \E l \in Links : CloseLink(l)
    \/ Terminate

-----------------------------------------------------------------------------
(***************************************************************************)
(* MCP service registry of a proxy: acp-proxy/src/mcp_server.rs            *)
(***************************************************************************)

\* Servers registered in one run, and messages handed to the registry.
MaxServers == 2
MaxMcMsgs == 3

ServerNames == {"alpha", "beta"}

\* format!("acp:{uuid}")
AcpUrl(uuid) == [scheme |-> "acp", uuid |-> uuid]

\* The mcp_servers lists a session/new request arrives with.
OriginalServers == { << >>, << [type |-> "stdio", name |-> "orig", url |-> AcpUrl(0)] >> }

\* The requests and notifications handed to the registry: the method, whether
\* the params decode, the acp_url or connection_id they name (by its uuid)
\* and, for session/new, the mcp_servers list.
McMsgs ==
    { m \in [type : {"request"}, id : {1},
              method : {"_mcp/connect", "_mcp/request", "session/new",
                        "session/prompt"},
              ok : BOOLEAN, uuid : 1..(MaxServers + 1),
              servers : OriginalServers] :
        /\ m.method # "session/new" => m.servers = << >>
        /\ m.method \in {"session/new", "session/prompt"} => m.uuid = 1
        /\ ~m.ok => m.uuid = 1 /\ m.servers = << >>
        /\ m.method = "session/prompt" => m.ok }
      \cup
    { m \in [type : {"notification"}, id : {0},
              method : {"_mcp/notification", "_mcp/disconnect", "session/update"},
              ok : BOOLEAN, uuid : 1..(MaxServers + 1), servers : {<< >>}] :
        /\ ~m.ok => m.uuid = 1
        /\ m.method = "session/update" => m.ok /\ m.uuid = 1 }

NoMcMsg == [type |-> "none", id |-> 0, method |-> "", ok |-> TRUE, uuid |-> 0,
            servers |-> << >>]

\* A line the registry causes to be sent: to the peer that sent the message
\* ("peer"), to the successor or to a spawned MCP server.
McLine(to, kind, id, body) == [to |-> to, kind |-> kind, id |-> id, body |-> body]

McIdle ==
    /\ mcServers = {}
    /\ mcConnections = << >>
    /\ mcTornDown = << >>
    /\ mcUuid = 0
    /\ mcMsg = NoMcMsg
    /\ mcHandled = "none"
    /\ mcSent = << >>
    /\ mcForward = {}
    /\ mcCount = 0

\* add_rmcp_server: a name already registered is refused; otherwise the
\* server is registered under a fresh url.
AddRmcpServer(name) ==
    /\ Cardinality(mcServers) < MaxServers
    /\ \A srv \in mcServers : srv.name # name
    /\ mcUuid' = mcUuid + 1
    /\ mcServers' = mcServers \cup {[name |-> name, uuid |-> mcUuid + 1]}
    /\ UNCHANGED <<mcConnections, mcTornDown, mcMsg, mcHandled, mcSent,
                   mcForward, mcCount, hcVars, enVars, cdVars, mbVars>>

\* An entry that gives every server the same url.
AcpMcpServerSameUrl(srv) ==
    [type |-> "http", name |-> srv.name, url |-> AcpUrl(0)]

\* RegisteredMcpServer::acp_mcp_server
AcpMcpServer(srv) ==
    [type |-> "http", name |-> srv.name, url |-> AcpUrl(srv.uuid)]

\* A lookup that finds a connection under any id.
GetConnectionAlways(id) == TRUE

\* get_connection: is there a connection under this id.
GetConnection(id) == id \in DOMAIN mcConnections

\* A connection id made of the url that was asked for.
NewConnectionIdOfUrl(msg) == msg.uuid

\* format!("mcp-over-acp-connection:{}", Uuid::new_v4()): a fresh id.
NewConnectionId(msg) == mcUuid + 1

\* insert_connection: the map entry of the id is the new, empty channel.
InsertConnection(id) ==
    [c \in DOMAIN mcConnections \cup {id} |->
       IF c = id THEN << >> ELSE mcConnections[c]]

\* A channel that hands over the newest message first.
SendToFront(id, entry) ==
    [mcConnections EXCEPT ![id] = << entry >> \o @]

\* mcp_server_tx.send: the message joins the end of the channel of id.
SendTo(id, entry) ==
    [mcConnections EXCEPT ![id] = Append(@, entry)]

\* A removal that leaves the map as it is.
RemoveConnectionKeeps(id) == mcConnections

\* remove_connection: the map without the entry of id.
RemoveConnection(id) ==
    [c \in DOMAIN mcConnections \ {id} |-> mcConnections[c]]

\* A removal that reports success whatever the id.
RemovedAlways(id) == TRUE

\* remove_connection(..).is_some(): there was an entry to remove.
Removed(id) == id \in DOMAIN mcConnections

\* The message as it sits in a mailbox: its arrival number and its type.
Proxied(msg) == [n |-> mcCount + 1, type |-> msg.type]

\* handle_connect_request
HandleConnectRequest(msg) ==
    IF ~msg.ok
      THEN /\ mcSent' = << McLine("peer", "error_response", msg.id, -32602) >>
           /\ mcHandled' = "Yes"
           /\ UNCHANGED <<mcConnections, mcUuid, mcForward>>
    ELSE IF \A srv \in mcServers : srv.uuid # msg.uuid
      THEN /\ mcSent' = << >>
           /\ mcHandled' = "No"
           /\ UNCHANGED <<mcConnections, mcUuid, mcForward>>
    ELSE /\ mcUuid' = mcUuid + 1
         /\ mcConnections' = InsertConnection(NewConnectionId(msg))
         /\ mcSent' = << >>
         /\ mcHandled' = "Yes"
         /\ UNCHANGED mcForward

\* handle_mcp_over_acp_request
HandleMcpOverAcpRequest(msg) ==
    /\ IF ~msg.ok
         THEN /\ mcSent' = << McLine("peer", "error_response", msg.id, -32602) >>
              /\ mcHandled' = "Yes"
              /\ UNCHANGED mcConnections
       ELSE IF ~GetConnection(msg.uuid)
         THEN /\ mcSent' = << >>
              /\ mcHandled' = "No"
              /\ UNCHANGED mcConnections
       ELSE /\ mcSent' = << McLine("server", "request", msg.id, msg.uuid) >>
            /\ mcHandled' = "Yes"
            /\ mcConnections' = SendTo(msg.uuid, Proxied(msg))
    /\ UNCHANGED <<mcUuid, mcForward>>

\* handle_new_session_request: one entry per registered server is pushed
\* onto mcp_servers, in the order the map yields them, and the request is
\* sent to the successor, whose response will go to the request context.
HandleNewSessionRequest(msg) ==
    /\ IF ~msg.ok
         THEN /\ mcSent' = << McLine("peer", "error_notification", msg.id, -32602) >>
              /\ UNCHANGED mcForward
         ELSE /\ \E order \in [1..Cardinality(mcServers) -> mcServers] :
                   /\ \A i, j \in DOMAIN order : order[i] = order[j] => i = j
                   /\ mcSent' = << McLine("successor", "request", msg.id,
                                     msg.servers \o
                                       [i \in DOMAIN order |-> AcpMcpServer(order[i])]) >>
              /\ mcForward' = mcForward \cup {msg.id}
    /\ mcHandled' = "Yes"
    /\ UNCHANGED <<mcConnections, mcUuid>>

\* JsonRpcHandler::handle_request of the registry.
HandleRequest(msg) ==
    /\ msg.type = "request"
    /\ mcCount < MaxMcMsgs
    /\ msg.id \notin mcForward
    /\ mcCount' = mcCount + 1
    /\ mcMsg' = msg
    /\ CASE msg.method = "_mcp/connect" -> HandleConnectRequest(msg)
         [] msg.method = "_mcp/request" -> HandleMcpOverAcpRequest(msg)
         [] msg.method = "session/new" -> HandleNewSessionRequest(msg)
         [] OTHER -> /\ mcSent' = << >>
                     /\ mcHandled' = "No"
                     /\ UNCHANGED <<mcConnections, mcUuid, mcForward>>
    /\ UNCHANGED <<mcServers, mcTornDown, hcVars, enVars, cdVars, mbVars>>

\* JsonRpcHandler::handle_notification of the registry, with
\* handle_mcp_over_acp_notification and handle_mcp_disconnect_notification.
\* Removing the entry drops the only sender of the channel, which ends the
\* task that serves the session and with it the session's streams.
HandleNotification(msg) ==
    /\ msg.type = "notification"
    /\ mcCount < MaxMcMsgs
    /\ mcCount' = mcCount + 1
    /\ mcMsg' = msg
    /\ CASE msg.method \in {"_mcp/notification", "_mcp/disconnect"} /\ ~msg.ok ->
              /\ mcSent' = << McLine("peer", "error_notification", msg.id, -32602) >>
              /\ mcHandled' = "Yes"
              /\ UNCHANGED <<mcConnections, mcTornDown>>
         [] msg.method = "_mcp/notification" /\ msg.ok ->
              /\ mcSent' = IF GetConnection(msg.uuid)
                             THEN << McLine("server", "notification", msg.id, msg.uuid) >>
                             ELSE << >>
              /\ mcHandled' = IF GetConnection(msg.uuid) THEN "Yes" ELSE "No"
              /\ mcConnections' = IF GetConnection(msg.uuid)
                                    THEN SendTo(msg.uuid, Proxied(msg))
                                    ELSE mcConnections
              /\ UNCHANGED mcTornDown
         [] msg.method = "_mcp/disconnect" /\ msg.ok ->
              /\ mcSent' = << >>
              /\ mcHandled' = IF Removed(msg.uuid) THEN "Yes" ELSE "No"
              /\ mcTornDown' = IF Removed(msg.uuid)
                                 THEN Append(mcTornDown, msg.uuid)
                                 ELSE mcTornDown
              /\ mcConnections' = RemoveConnection(msg.uuid)
         [] OTHER ->
              /\ mcSent' = << >>
              /\ mcHandled' = "No"
              /\ UNCHANGED <<mcConnections, mcTornDown>>
    /\ UNCHANGED <<mcServers, mcUuid, mcForward, hcVars, enVars, cdVars, mbVars>>

\* The successor answers a forwarded session/new; forward_to_request_cx
\* hands its response, result or error, to the requester.
SuccessorResponds(id, body) ==
    /\ id \in mcForward
    /\ mcForward' = mcForward \ {id}
    /\ mcSent' = mcSent \o << McLine("successor", "reply", id, body),
                               McLine("peer", "response", id, body) >>
    /\ UNCHANGED <<mcServers, mcConnections, mcTornDown, mcUuid, mcMsg,
                   mcHandled, mcCount, hcVars, enVars, cdVars, mbVars>>

McNext ==
    \/ \E name \in ServerNames : AddRmcpServer(name)
    \/ \E msg \in McMsgs : HandleRequest(msg)
    \/ \E msg \in McMsgs : HandleNotification(msg)
    \/ \E id \in mcForward, body \in {"session-1", "error"} :
         SuccessorResponds(id, body)

-----------------------------------------------------------------------------
(***************************************************************************)
(* MCP bridging of the conductor: conductor/src/conductor/mcp_bridge.rs    *)
(***************************************************************************)

\* Entries of one mcp_servers list, and session/new requests of one run.
MaxEntries == 2

\* The urls Http entries carry: acp:<uuid> ones and an ordinary one.
BridgeUrls == {AcpUrl(1), AcpUrl(2)}
HttpsUrl == [scheme |-> "https", uuid |-> 1]
NoUrl == [scheme |-> "", uuid |-> 0]

\* McpServer::Http { name, url, headers }
HttpServer(name, url, headers) ==
    [type |-> "http", name |-> name, url |-> url, headers |-> headers,
     command |-> "", args |-> << >>]

\* McpServer::Stdio { name, command, args, env: vec![] }
StdioServer(name, command, args) ==
    [type |-> "stdio", name |-> name, url |-> NoUrl, headers |-> << >>,
     command |-> command, args |-> args]

\* The entries a session/new request arrives with.
BridgeEntries ==
    { HttpServer("tools", u, << >>) : u \in BridgeUrls }
      \cup { HttpServer("tools", AcpUrl(1), <<"authorization">>),
             HttpServer("web", HttpsUrl, <<"authorization">>),
             StdioServer("orig", "node", <<"server.js">>) }

ServerLists == UNION { [1..n -> BridgeEntries] : n \in 0..MaxEntries }

\* url.starts_with("acp:")
StartsWithAcpAnyUrl(url) == url.scheme # ""
StartsWithAcp(url) == url.scheme = "acp"

\* TcpListener::bind("127.0.0.1:0") and local_addr().port(): the system
\* hands out a port no listener holds; ports are numbered in the order they
\* are handed out.
TcpPort(listeners) == Len(listeners) + 1

BindListener(listeners, acp_url) ==
    Append(listeners, [addr |-> "127.0.0.1", acp_url |-> acp_url])

\* self.mcp_bridges.insert(acp_url, McpBridgeInfo { acp_url, tcp_port, .. })
InsertBridge(bridges, acp_url, port) ==
    [u \in DOMAIN bridges \cup {acp_url} |->
        IF u = acp_url THEN port ELSE bridges[u]]

\* The entry that replaces a bridged one.
ConductorStdio(name, port) ==
    StdioServer(name, "conductor", <<"mcp", ToString(port)>>)

\* transform_mcp_servers, for one entry: st holds mcp_bridges, the listeners,
\* the entries done so far and the error, 0 while there is none.
TransformMcpServers(st, server) ==
    IF server.type # "http" THEN [st EXCEPT !.servers = Append(@, server)]
    ELSE IF ~StartsWithAcp(server.url)
         THEN [st EXCEPT !.servers = Append(@, server)]
    ELSE IF server.headers # << >> THEN [st EXCEPT !.err = InternalErrorCode]
    ELSE LET port == TcpPort(st.listeners)
         IN  [st EXCEPT !.listeners = BindListener(@, server.url),
                        !.bridges = InsertBridge(@, server.url, port),
                        !.servers = Append(@, ConductorStdio(server.name, port))]

\* The entries of a session/new are transformed in order; the first error
\* ends the request.
RECURSIVE TransformAll(_, _)
TransformAll(st, servers) ==
    IF servers = << >> \/ st.err # 0 THEN st
    ELSE TransformAll(TransformMcpServers(st, Head(servers)), Tail(servers))

\* The shim is needed when the agent's initialize response did not advertise
\* mcp_acp_transport.
NeedsShimAlways == TRUE
NeedsShim == brNative # "advertised"

NoSeen == [err |-> 0, servers |-> << >>]

BrIdle ==
    /\ brNative = "unknown"
    /\ brBridges = << >>
    /\ brListeners = << >>
    /\ brOrig = << >>
    /\ brSeen = NoSeen
    /\ brCount = 0

\* The agent's initialize response arrives, with or without the capability.
InitializeResponse(native) ==
    /\ brNative = "unknown"
    /\ brNative' = native
    /\ UNCHANGED <<brBridges, brListeners, brOrig, brSeen, brCount,
                   shVars, rtVars, xtVars, hcVars, enVars, cdVars, mcVars>>

\* A session/new on its way to the agent.
NewSession(servers) ==
    /\ brNative # "unknown"
    /\ brCount < MaxEntries
    /\ LET st0 == [bridges |-> brBridges, listeners |-> brListeners,
                   servers |-> << >>, err |-> 0]
           st == IF NeedsShim THEN TransformAll(st0, servers)
                 ELSE [st0 EXCEPT !.servers = servers]
       IN  /\ brBridges' = st.bridges
           /\ brListeners' = st.listeners
           /\ brSeen' = IF st.err # 0 THEN [err |-> st.err, servers |-> << >>]
                        ELSE [err |-> 0, servers |-> st.servers]
    /\ brOrig' = servers
    /\ brCount' = brCount + 1
    /\ UNCHANGED <<brNative, shVars, rtVars, xtVars, hcVars, enVars, cdVars, mcVars>>

BrNext ==
    \/ \E native \in {"advertised", "absent"} : InitializeResponse(native)
    \/ \E servers \in ServerLists : NewSession(servers)

-----------------------------------------------------------------------------
(***************************************************************************)
(* `conductor mcp <port>`: conductor/src/mcp_bridge.rs                     *)
(***************************************************************************)

\* Lines each side writes in one run.
MaxLines == 2

\* The two inputs of the helper: its stdin, read for the TCP socket, and the
\* TCP socket, read for its stdout.
Dirs == {"stdin", "tcp"}

OtherDir(d) == IF d = "stdin" THEN "tcp" ELSE "stdin"

\* The end of an input, as the chunk after its last line.
Eof == [line |-> 0, part |-> 0]

RECURSIVE Flatten(_)
Flatten(lines) ==
    IF lines = << >> THEN << >> ELSE Head(lines) \o Flatten(Tail(lines))

\* The bytes of the lines a side wrote: a line arrives in LineParts chunks,
\* the last of which ends in the newline.
BytesOf(ids) == Flatten([i \in 1..Len(ids) |-> Parts(ids[i])])

\* serde_json::from_str(line.trim()): a whole line is a JSON value, a piece
\* of one is not.
ValidJson(bytes) == \E line \in 1..MaxLines : bytes = Parts(line)

\* What a read_line dropped by select! leaves of the bytes it had read: the
\* future owns them, and they go with it.
Cancelled(buf) == << >>

\* read_line at the end of the input: n == 0 breaks out of the loop; bytes
\* without a newline before the end are returned as a line, which is a piece
\* of a JSON value and ends the helper with an error.
AtEndOfInputContinues(buf) == "running"
AtEndOfInput(buf) == IF buf = << >> THEN "stopped" ELSE "error"

ShIdle ==
    /\ shWrote = [d \in Dirs |-> << >>]
    /\ shPipe = [d \in Dirs |-> << >>]
    /\ shBuf = [d \in Dirs |-> << >>]
    /\ shOut = [d \in Dirs |-> << >>]
    /\ shRun = "none"

\* run_mcp_bridge after connect_with_retry returned the stream.
ShInit ==
    /\ shWrote = [d \in Dirs |-> << >>]
    /\ shPipe = [d \in Dirs |-> << >>]
    /\ shBuf = [d \in Dirs |-> << >>]
    /\ shOut = [d \in Dirs |-> << >>]
    /\ shRun = "running"

Open(d) == IF shPipe[d] = << >> THEN TRUE ELSE shPipe[d][Len(shPipe[d])] # Eof

\* The MCP client (on stdin) or the conductor (on TCP) writes its next line.
SourceWrites(d) ==
    /\ shRun = "running"
    /\ Open(d)
    /\ Len(shWrote[d]) < MaxLines
    /\ LET line == Len(shWrote[d]) + 1
       IN  /\ shWrote' = [shWrote EXCEPT ![d] = Append(@, line)]
           /\ shPipe' = [shPipe EXCEPT ![d] = @ \o Parts(line)]
    /\ UNCHANGED <<shBuf, shOut, shRun, brVars, rtVars, xtVars, hcVars, enVars, cdVars,
                   mcVars>>

\* ... or closes its end.
SourceCloses(d) ==
    /\ shRun = "running"
    /\ Open(d)
    /\ shPipe' = [shPipe EXCEPT ![d] = Append(@, Eof)]
    /\ UNCHANGED <<shWrote, shBuf, shOut, shRun, brVars, rtVars, xtVars, hcVars, enVars,
                   cdVars, mcVars>>

\* One poll of a branch of the select!: read_line takes the bytes that have
\* arrived. Without a newline among them the branch stays pending; with one,
\* or at the end of the input, the branch completes, the read_line of the
\* other branch is dropped, and the line is validated and forwarded.
Poll(d) ==
    /\ shRun = "running"
    /\ shPipe[d] # << >>
    /\ LET chunk == Head(shPipe[d])
           line == shBuf[d] \o << chunk >>
           o == OtherDir(d)
       IN  /\ shPipe' = [shPipe EXCEPT ![d] = Tail(@)]
           /\ IF chunk = Eof
              THEN /\ shRun' = AtEndOfInput(shBuf[d])
                   /\ shBuf' = [shBuf EXCEPT ![d] = << >>, ![o] = Cancelled(@)]
                   /\ shOut' = shOut
              ELSE IF chunk.part < LineParts
              THEN /\ shBuf' = [shBuf EXCEPT ![d] = line]
                   /\ UNCHANGED <<shOut, shRun>>
              ELSE /\ shBuf' = [shBuf EXCEPT ![d] = << >>, ![o] = Cancelled(@)]
                   /\ shRun' = IF ValidJson(line) THEN "running" ELSE "error"
                   /\ shOut' = IF ValidJson(line)
                               THEN [shOut EXCEPT ![d] = Append(@, line)]
                               ELSE shOut
    /\ UNCHANGED <<shWrote, brVars, rtVars, xtVars, hcVars, enVars, cdVars, mcVars>>

ShNext == \E d \in Dirs : SourceWrites(d) \/ SourceCloses(d) \/ Poll(d)

\* ---- connect_with_retry --------------------------------------------------
MaxRetries == 10
InitialDelayMs == 50
MaxDelayMs == 1000

\* retry_delay_ms = (retry_delay_ms * 2).min(1000)
NextDelayUncapped(delay) == delay * 2
NextDelayFixed(delay) == delay
NextDelay(delay) == IF delay * 2 < MaxDelayMs THEN delay * 2 ELSE MaxDelayMs

RtIdle ==
    /\ rtAttempt = 0
    /\ rtDelay = 0
    /\ rtSleep = 0
    /\ rtClock = 0
    /\ rtBoundAt = -1
    /\ rtResult = "none"

\* The helper starts; the conductor's listener may be up already.
RtInit ==
    /\ rtAttempt = 1
    /\ rtDelay = InitialDelayMs
    /\ rtSleep = 0
    /\ rtClock = 0
    /\ rtBoundAt \in {-1, 0}
    /\ rtResult = "connecting"

\* TcpStream::connect succeeds when a listener holds the port.
ConnectAttempt ==
    /\ rtResult = "connecting"
    /\ rtSleep = 0
    /\ IF rtBoundAt # -1
       THEN rtResult' = "ok" /\ rtSleep' = rtSleep
       ELSE IF rtAttempt < MaxRetries
       THEN rtSleep' = rtDelay /\ rtResult' = rtResult
       ELSE rtResult' = "failed" /\ rtSleep' = rtSleep
    /\ UNCHANGED <<rtAttempt, rtDelay, rtClock, rtBoundAt, brVars, shVars,
                   xtVars, hcVars, enVars, cdVars, mcVars>>

\* tokio::time::sleep passes, in steps of the shortest delay; at its end the
\* delay is doubled and the next attempt begins.
Sleep ==
    /\ rtSleep > 0
    /\ rtSleep' = rtSleep - InitialDelayMs
    /\ rtClock' = rtClock + InitialDelayMs
    /\ IF rtSleep' = 0
       THEN rtDelay' = NextDelay(rtDelay) /\ rtAttempt' = rtAttempt + 1
       ELSE UNCHANGED <<rtDelay, rtAttempt>>
    /\ UNCHANGED <<rtBoundAt, rtResult, brVars, shVars, xtVars, hcVars, enVars, cdVars,
                   mcVars>>

\* A listener takes the port.
PortBound ==
    /\ rtBoundAt = -1
    /\ rtBoundAt' = rtClock
    /\ UNCHANGED <<rtAttempt, rtDelay, rtSleep, rtClock, rtResult, brVars,
                   shVars, xtVars, hcVars, enVars, cdVars, mcVars>>

RtNext == ConnectAttempt \/ Sleep \/ PortBound

-----------------------------------------------------------------------------
(***************************************************************************)
(* Registrations through several handles of one McpServiceRegistry:        *)
(* acp-proxy/src/mcp_server.rs                                             *)
(***************************************************************************)

\* The tasks that hold a handle of the registry.
Handles == 1..MaxTasks

NoCall == [name |-> "", at |-> "idle"]

RgIdle ==
    /\ rgByName = << >>
    /\ rgByUrl = {}
    /\ rgCalls = [t \in Handles |-> NoCall]
    /\ rgUuid = 0

\* add_rmcp_server up to the end of get_registered_server_by_name, which
\* takes the lock, looks the name up and releases the lock: a name found is
\* refused.
CheckName(t, name) ==
    /\ rgCalls[t].at # "checked"
    /\ rgUuid <= MaxServers
    /\ rgCalls' = [rgCalls EXCEPT ![t] =
                      [name |-> name,
                       at |-> IF name \in DOMAIN rgByName THEN "err" ELSE "checked"]]
    /\ UNCHANGED <<rgByName, rgByUrl, rgUuid, rgOthers>>

\* The rest of add_rmcp_server: a fresh uuid is drawn, and
\* insert_registered_server takes the lock and inserts into both maps.
InsertRegisteredServer(t) ==
    /\ rgCalls[t].at = "checked"
    /\ LET name == rgCalls[t].name
           uuid == rgUuid + 1
       IN  /\ rgUuid' = uuid
           /\ rgByName' = [n \in DOMAIN rgByName \cup {name} |->
                              IF n = name THEN uuid ELSE rgByName[n]]
           /\ rgByUrl' = rgByUrl \cup {[name |-> name, uuid |-> uuid]}
    /\ rgCalls' = [rgCalls EXCEPT ![t].at = "ok"]
    /\ UNCHANGED rgOthers

RgNext ==
    \/ \E t \in Handles, name \in ServerNames : CheckName(t, name)
    \/ \E t \in Handles : InsertRegisteredServer(t)

-----------------------------------------------------------------------------
(***************************************************************************)
(* bridge_actor: conductor/src/conductor/mcp_bridge.rs                     *)
(***************************************************************************)

\* enum McpBridgeMessage { Request(..), Notification(..) }
McpBridgeMessage(kind, n) == [kind |-> kind, n |-> n]

BaIdle ==
    /\ baSent = << >>
    /\ baQueue = << >>
    /\ baSocket = << >>
    /\ baOpen = {"mailbox", "socket"}
    /\ baRun = "none"

\* The helper has connected and bridge_actor runs its client loop.
BaInit ==
    /\ baSent = << >>
    /\ baQueue = << >>
    /\ baSocket = << >>
    /\ baOpen = {"mailbox", "socket"}
    /\ baRun = "running"

\* The conductor queues an MCP message for the connection.
QueueForBridge(kind) ==
    /\ "mailbox" \in baOpen
    /\ Len(baSent) < MaxMcMsgs
    /\ LET message == McpBridgeMessage(kind, Len(baSent) + 1)
       IN  /\ baSent' = Append(baSent, message)
           /\ baQueue' = Append(baQueue, message)
    /\ UNCHANGED <<baSocket, baOpen, baRun, baOthers>>

\* The sender of the mailbox is dropped, or the helper closes the socket.
BridgeEndCloses(end) ==
    /\ end \in baOpen
    /\ baOpen' = baOpen \ {end}
    /\ UNCHANGED <<baSent, baQueue, baSocket, baRun, baOthers>>

\* One turn of `while let Some(message) = bridge_rx.next().await`: a Request
\* is sent on the connection, the Notification arm is todo!(), and the end
\* of the mailbox ends the loop; the connection also ends with its socket.
BridgeActorTurn ==
    /\ baRun = "running"
    /\ baQueue # << >> \/ baOpen # {"mailbox", "socket"}
    /\ IF baQueue = << >> \/ "socket" \notin baOpen
       THEN baRun' = "stopped" /\ UNCHANGED <<baQueue, baSocket>>
       ELSE /\ baQueue' = Tail(baQueue)
            /\ IF Head(baQueue).kind = "request"
               THEN baSocket' = Append(baSocket, Head(baQueue)) /\ baRun' = baRun
               ELSE baSocket' = baSocket /\ baRun' = "panicked"
    /\ UNCHANGED <<baSent, baOpen, baOthers>>

BaNext ==
    \/ \E kind \in {"request", "notification"} : QueueForBridge(kind)
    \/ \E end \in {"mailbox", "socket"} : BridgeEndCloses(end)
    \/ BridgeActorTurn

\* ======================================================================
\* The VS Code language-model backend (symposium-acp-agent, vscodelm)
\* ======================================================================

MaxSessions == 2

MaxRequests == 2

MaxEvents == 2

RequestIds == 1..MaxRequests

ToolCallIds == {"call-1", "call-2"}

ERROR_CODE_CANCELLED == -32800

\* enum SessionState; a variant's missing fields are 0 and "".
Idle == [tag |-> "Idle", request_id |-> 0, tool_call_id |-> ""]

Streaming(request_id) ==
    [tag |-> "Streaming", request_id |-> request_id, tool_call_id |-> ""]

AwaitingPermission(tool_call_id) ==
    [tag |-> "AwaitingPermission", request_id |-> 0, tool_call_id |-> tool_call_id]

SessionState ==
    {Idle} \cup {Streaming(r) : r \in RequestIds}
           \cup {AwaitingPermission(t) : t \in ToolCallIds}

\* What the actor of a session puts on prompt_rx; Closed is the end of it.
SessionToCodeMessage == {"Part", "PermissionRequest", "Closed"}

LmIdle ==
    /\ lmSessions = << >>
    /\ lmTurn = << >>
    /\ lmCancel = [r \in RequestIds |-> "none"]
    /\ lmDropped = {}
    /\ lmEvents = [r \in RequestIds |-> << >>]
    /\ lmTask = [r \in RequestIds |-> "none"]
    /\ lmOut = << >>
    /\ lmHandler = "running"
    /\ lmAsked = 0
    /\ lmAfter = [r \in RequestIds |-> "none"]
    /\ lmCancelled = {}

\* SessionState::cancel on session i: mem::replace(self, Idle); the sender
\* of a Streaming state is used (the send fails if the receiver is gone),
\* the old state, with any decision_tx in it, is dropped.
cancel(i) ==
    LET old_state == lmSessions[i]
    IN  /\ lmSessions' = [lmSessions EXCEPT ![i] = Idle]
        /\ lmCancel' =
              IF old_state.tag = "Streaming"
              THEN IF lmCancel[old_state.request_id] = "open"
                   THEN [lmCancel EXCEPT ![old_state.request_id] = "sent"]
                   ELSE lmCancel
              ELSE lmCancel
        /\ lmDropped' =
              IF old_state.tag = "AwaitingPermission"
              THEN lmDropped \cup {old_state.tool_call_id}
              ELSE lmDropped

\* cancel as a function of the state it is called on: any session of any
\* variant, the receiver of a Streaming state alive or gone.
CancelInit ==
    /\ lmSessions \in UNION {[1..n -> SessionState] : n \in 1..MaxSessions}
    /\ \A i, j \in 1..Len(lmSessions) :
          (i # j /\ lmSessions[i].tag = "Streaming")
             => lmSessions[i].request_id # lmSessions[j].request_id
    /\ lmTurn = [i \in 1..Len(lmSessions) |-> lmSessions[i].request_id]
    /\ lmCancel \in [RequestIds -> {"none", "open", "gone"}]
    /\ \A r \in RequestIds :
          (lmCancel[r] = "none")
             <=> (\A i \in 1..Len(lmSessions) : lmSessions[i] # Streaming(r))
    /\ lmDropped = {}
    /\ lmEvents = [r \in RequestIds |-> << >>]
    /\ lmTask = [r \in RequestIds |-> "none"]
    /\ lmOut = << >>
    /\ lmHandler = "running"
    /\ lmAsked = 0
    /\ lmAfter = [r \in RequestIds |-> "none"]
    /\ lmCancelled = {}

CancelSession(i) ==
    /\ i \in 1..Len(lmSessions)
    /\ cancel(i)
    /\ UNCHANGED <<lmTurn, lmEvents, lmTask, lmOut, lmHandler, lmAsked, lmAfter,
                   lmCancelled, lmOthers>>

CancelNext == \E i \in 1..MaxSessions : CancelSession(i)

\* The lines of stream_response with a completion written for a cancellation
\* as well.
StreamOutputCompletesCancelled(request_id, event) ==
    CASE event = "Part" ->
           <<[kind |-> "lm/responsePart", id |-> request_id, code |-> 0]>>
      [] event \in {"PermissionRequest", "Closed"} ->
           <<[kind |-> "lm/responseComplete", id |-> request_id, code |-> 0],
             [kind |-> "response", id |-> request_id, code |-> 0]>>
      [] event = "Cancelled" ->
           <<[kind |-> "lm/responseComplete", id |-> request_id, code |-> 0],
             [kind |-> "response", id |-> request_id, code |-> 0],
             [kind |-> "response", id |-> request_id, code |-> ERROR_CODE_CANCELLED]>>

\* The lines stream_response writes for one event of the merged stream.
StreamOutput(request_id, event) ==
    CASE event = "Part" ->
           <<[kind |-> "lm/responsePart", id |-> request_id, code |-> 0]>>
      [] event \in {"PermissionRequest", "Closed"} ->
           <<[kind |-> "lm/responseComplete", id |-> request_id, code |-> 0],
             [kind |-> "response", id |-> request_id, code |-> 0]>>
      [] event = "Cancelled" ->
           <<[kind |-> "response", id |-> request_id, code |-> ERROR_CODE_CANCELLED]>>

Completed(request_id) ==
    \E k \in 1..Len(lmOut) :
       lmOut[k].kind = "lm/responseComplete" /\ lmOut[k].id = request_id

\* What the session a request continues was doing when the request came.
AfterWhat(k) ==
    IF k = 0 THEN "new"
    ELSE IF lmTurn[k] # 0 /\ Completed(lmTurn[k]) THEN "completed"
    ELSE IF lmSessions[k].tag = "Idle" THEN "idle" ELSE "streaming"

\* handle_message for lm/provideLanguageModelChatResponse: the messages
\* extend the history of session k, or of none (k = 0) and a session is
\* spawned; then receive_messages, whose Streaming and AwaitingPermission
\* arms are todo!().
ProvideResponseRequest(k) ==
    /\ lmHandler = "running"
    /\ lmAsked < MaxRequests
    /\ k \in 0..Len(lmSessions)
    /\ k = 0 => Len(lmSessions) < MaxSessions
    /\ LET request_id  == lmAsked + 1
           sessions    == IF k = 0 THEN Append(lmSessions, Idle) ELSE lmSessions
           session_idx == IF k = 0 THEN Len(sessions) ELSE k
       IN  /\ lmAsked' = request_id
           /\ lmAfter' = [lmAfter EXCEPT ![request_id] = AfterWhat(k)]
           /\ IF sessions[session_idx].tag = "Idle"
              THEN /\ lmSessions' =
                         [sessions EXCEPT ![session_idx] = Streaming(request_id)]
                   /\ lmTurn' = IF k = 0 THEN Append(lmTurn, request_id)
                                ELSE [lmTurn EXCEPT ![k] = request_id]
                   /\ lmCancel' = [lmCancel EXCEPT ![request_id] = "open"]
                   /\ lmTask' = [lmTask EXCEPT ![request_id] = "running"]
                   /\ lmHandler' = lmHandler
              ELSE /\ lmHandler' = "panicked"
                   /\ UNCHANGED <<lmSessions, lmTurn, lmCancel, lmTask>>
    /\ UNCHANGED <<lmDropped, lmEvents, lmOut, lmCancelled, lmOthers>>

\* handle_message for the cancel notification: the session streaming this
\* request is cancelled; for any other id there is only a warning.
CancelNotification(request_id) ==
    /\ lmHandler = "running"
    /\ request_id \in 1..lmAsked
    /\ IF \E i \in 1..Len(lmSessions) : lmSessions[i] = Streaming(request_id)
       THEN LET i == CHOOSE i \in 1..Len(lmSessions) :
                        lmSessions[i] = Streaming(request_id)
            IN  /\ cancel(i)
                /\ lmCancelled' = IF lmTask[request_id] = "running"
                                  THEN lmCancelled \cup {request_id}
                                  ELSE lmCancelled
       ELSE UNCHANGED <<lmSessions, lmCancel, lmDropped, lmCancelled>>
    /\ UNCHANGED <<lmTurn, lmEvents, lmTask, lmOut, lmHandler, lmAsked, lmAfter,
                   lmOthers>>

\* How many messages the actors have put on prompt_rx so far.
Emitted ==
    LET Waiting[r \in 0..MaxRequests] ==
            IF r = 0 THEN 0 ELSE Waiting[r - 1] + Len(lmEvents[r])
    IN  Waiting[MaxRequests]
          + Cardinality({k \in 1..Len(lmOut) : lmOut[k].kind # "response"})

\* The actor of the session puts a message on prompt_rx, or closes it at
\* the end of the turn; after a permission request it waits.
ActorSends(request_id, message) ==
    /\ lmHandler = "running"
    /\ lmTask[request_id] = "running"
    /\ Emitted < MaxEvents
    /\ message \in SessionToCodeMessage
    /\ IF lmEvents[request_id] = << >> THEN TRUE
       ELSE lmEvents[request_id][Len(lmEvents[request_id])] = "Part"
    /\ lmEvents' = [lmEvents EXCEPT ![request_id] = Append(@, message)]
    /\ UNCHANGED <<lmSessions, lmTurn, lmCancel, lmDropped, lmTask, lmOut,
                   lmHandler, lmAsked, lmAfter, lmCancelled, lmOthers>>

\* One turn of the loop of stream_response over the merge of the part
\* stream and the cancel stream: when both have an item either may come
\* first. Every event but a Part ends the task, and the result is dropped.
StreamResponse(request_id, cancelled) ==
    /\ lmHandler = "running"
    /\ lmTask[request_id] = "running"
    /\ IF cancelled THEN lmCancel[request_id] = "sent"
                    ELSE lmEvents[request_id] # << >>
    /\ LET event == IF cancelled THEN "Cancelled" ELSE Head(lmEvents[request_id])
       IN  /\ lmOut' = lmOut \o StreamOutput(request_id, event)
           /\ lmEvents' = IF cancelled THEN lmEvents
                          ELSE [lmEvents EXCEPT ![request_id] = Tail(@)]
           /\ lmTask' = IF event = "Part" THEN lmTask
                        ELSE [lmTask EXCEPT ![request_id] = "done"]
           /\ lmCancel' = IF event # "Part" /\ lmCancel[request_id] = "open"
                          THEN [lmCancel EXCEPT ![request_id] = "gone"]
                          ELSE lmCancel
    /\ UNCHANGED <<lmSessions, lmTurn, lmDropped, lmHandler, lmAsked, lmAfter,
                   lmCancelled, lmOthers>>

LmNext ==
    \/ \E k \in 0..MaxSessions : ProvideResponseRequest(k)
    \/ \E r \in RequestIds : CancelNotification(r)
    \/ \E r \in RequestIds, m \in SessionToCodeMessage : ActorSends(r, m)
    \/ \E r \in RequestIds, c \in BOOLEAN : StreamResponse(r, c)

\* ======================================================================
\* Permission requests in the session actor (vscodelm/session_actor.rs)
\* ======================================================================

MaxMessages == 2

MaxPermissions == 2

PermissionOptionKind == {"AllowOnce", "RejectOnce"}

\* A Message is the list of its content parts.
TextPart == [type |-> "text", tool_call_id |-> ""]

ToolResultPart(tool_call_id) == [type |-> "tool_result", tool_call_id |-> tool_call_id]

LmMessages ==
    {<<TextPart>>}
      \cup {<<ToolResultPart(t)>> : t \in ToolCallIds}
      \cup {<<ToolResultPart("call-1"), TextPart>>}

\* Message::has_just_tool_result: the message is the result of this tool
\* call and nothing else.
HasJustToolResult(message, tool_call_id) ==
    message = <<ToolResultPart(tool_call_id)>>

\* struct SessionRequest, without its RequestState; NoRequest stands for
\* the end of request_rx.
NoRequest == [present |-> FALSE, canceled |-> FALSE, messages |-> << >>]

SessionRequest ==
    {[present |-> TRUE, canceled |-> c, messages |-> m] :
        c \in BOOLEAN,
        m \in UNION {[1..n -> LmMessages] : n \in 0..MaxMessages}}

NoPermission ==
    [has_internal_tool |-> FALSE, tool_call_id |-> "", options |-> {},
     next_request |-> NoRequest]

PmIdle ==
    /\ pmRequest = NoPermission
    /\ pmAnswers = << >>
    /\ pmHistory = << >>
    /\ pmActor = "running"
    /\ pmCount = 0

\* process_session_message for a RequestPermissionRequest of the agent:
\* has_internal_tool comes with the request being served, next_request is
\* what the peek on request_rx yields. messages[0] of a request without
\* messages and the assertions on the consumed request panic.
RequestPermissionRequest(has_internal_tool, tool_call_id, options, next_request) ==
    /\ pmActor = "running"
    /\ pmCount < MaxPermissions
    /\ pmCount' = pmCount + 1
    /\ pmRequest' = [has_internal_tool |-> has_internal_tool,
                     tool_call_id |-> tool_call_id, options |-> options,
                     next_request |-> next_request]
    /\ pmHistory' = IF has_internal_tool
                    THEN pmHistory \o <<"Part:ToolCall:" \o tool_call_id, "Complete">>
                    ELSE pmHistory
    /\ IF ~has_internal_tool
       THEN pmAnswers' = <<"Cancelled">> /\ pmActor' = pmActor
       ELSE IF ~next_request.present
       THEN pmAnswers' = <<"Cancelled">> /\ pmActor' = pmActor
       ELSE IF next_request.canceled
       THEN pmAnswers' = <<"Cancelled">> /\ pmActor' = pmActor
       ELSE IF next_request.messages = << >>
       THEN pmAnswers' = << >> /\ pmActor' = "panicked"
       ELSE IF ~HasJustToolResult(next_request.messages[1], tool_call_id)
       THEN pmAnswers' = <<"Cancelled">> /\ pmActor' = pmActor
       ELSE IF "AllowOnce" \notin options
       THEN pmAnswers' = <<"Cancelled">> /\ pmActor' = pmActor
       ELSE /\ pmAnswers' = <<"Selected:AllowOnce">>
            /\ pmActor' = IF Len(next_request.messages) = 1
                          THEN pmActor ELSE "panicked"
    /\ UNCHANGED pmOthers

PmNext ==
    \E has_internal_tool \in BOOLEAN, tool_call_id \in ToolCallIds,
       options \in SUBSET PermissionOptionKind,
       next_request \in SessionRequest \cup {NoRequest} :
          RequestPermissionRequest(has_internal_tool, tool_call_id, options,
                                   next_request)

\* ======================================================================
\* Recommendation diffs of the config agent (recommendations.rs)
\* ======================================================================

\* The component sources, in the order the recommendations list them.
SourceOrder == <<"ext-a", "ext-b", "ext-c">>

Sources == {SourceOrder[k] : k \in 1..Len(SourceOrder)}

InOrder(sources) == SelectSeq(SourceOrder, LAMBDA s : s \in sources)

\* WorkspaceConfig::extensions: source -> absent, enabled or disabled.
Configured(config) == {s \in Sources : config[s] # "absent"}

NewSources(diff) == {diff.new[k].source : k \in 1..Len(diff.new)}

StaleSources(diff) == {diff.stale[k] : k \in 1..Len(diff.stale)}

\* RecommendationDiff::compute
compute(recommendations, config) ==
    LET new == InOrder(recommendations \ Configured(config))
    IN  [new   |-> [k \in 1..Len(new) |-> [source |-> new[k], accepted |-> TRUE]],
         stale |-> InOrder(Configured(config) \ recommendations)]

has_changes(diff) == diff.new # << >> \/ diff.stale # << >>

is_stale_only(diff) == diff.new = << >> /\ diff.stale # << >>

\* RecommendationDiff::toggle, for a valid index
toggle(diff, index) ==
    [diff EXCEPT !.new[index].accepted = ~diff.new[index].accepted]

\* RecommendationDiff::apply_save
apply_save(diff, config) ==
    [s \in Sources |->
        IF s \in StaleSources(diff) THEN "absent"
        ELSE IF \E k \in 1..Len(diff.new) : diff.new[k].source = s
        THEN LET k == CHOOSE k \in 1..Len(diff.new) : diff.new[k].source = s
             IN  IF diff.new[k].accepted THEN "enabled" ELSE "disabled"
        ELSE config[s]]

\* apply_ignore as its doc comment has it: the new recommendations are
\* added as disabled as well.
apply_ignore_adds_disabled(diff, config) ==
    [s \in Sources |->
        IF s \in StaleSources(diff) THEN "absent"
        ELSE IF s \in NewSources(diff) THEN "disabled"
        ELSE config[s]]

\* RecommendationDiff::apply_ignore and apply_stale_removal: the stale
\* extensions are removed, nothing else.
apply_ignore(diff, config) ==
    [s \in Sources |-> IF s \in StaleSources(diff) THEN "absent" ELSE config[s]]

NoDiff == [new |-> << >>, stale |-> << >>]

RcIdle ==
    /\ rcRecommended = {}
    /\ rcConfig = [s \in Sources |-> "absent"]
    /\ rcDiff = NoDiff
    /\ rcApplied = NoDiff
    /\ rcBefore = [s \in Sources |-> "absent"]
    /\ rcLast = "none"

\* The recommendations that apply to the workspace change between two runs
\* of the config agent.
RecommendationsChange(recommendations) ==
    /\ rcDiff = NoDiff
    /\ recommendations # rcRecommended
    /\ rcRecommended' = recommendations
    /\ rcLast' = "recommendations"
    /\ UNCHANGED <<rcConfig, rcDiff, rcApplied, rcBefore, rcOthers>>

\* The config agent computes the diff and, if it has changes, prompts.
ComputeDiff ==
    /\ rcDiff = NoDiff
    /\ has_changes(compute(rcRecommended, rcConfig))
    /\ rcDiff' = compute(rcRecommended, rcConfig)
    /\ rcLast' = "prompt"
    /\ UNCHANGED <<rcRecommended, rcConfig, rcApplied, rcBefore, rcOthers>>

\* handle_recommendation_diff reads one input: ENTER in the stale-only case;
\* SAVE, IGNORE or a number to toggle in the full prompt; the end of the
\* input cancels. Any other input prompts again.
DiffInput(input) ==
    /\ rcDiff # NoDiff
    /\ CASE input = "cancelled" ->
              /\ rcDiff' = NoDiff
              /\ rcLast' = "cancelled"
              /\ UNCHANGED <<rcConfig, rcApplied, rcBefore>>
         [] input = "" ->
              /\ is_stale_only(rcDiff)
              /\ rcConfig' = apply_ignore(rcDiff, rcConfig)
              /\ rcApplied' = rcDiff
              /\ rcBefore' = rcConfig
              /\ rcDiff' = NoDiff
              /\ rcLast' = "ENTER"
         [] input = "SAVE" ->
              /\ ~is_stale_only(rcDiff)
              /\ rcConfig' = apply_save(rcDiff, rcConfig)
              /\ rcApplied' = rcDiff
              /\ rcBefore' = rcConfig
              /\ rcDiff' = NoDiff
              /\ rcLast' = "SAVE"
         [] input = "IGNORE" ->
              /\ ~is_stale_only(rcDiff)
              /\ rcConfig' = apply_ignore(rcDiff, rcConfig)
              /\ rcApplied' = rcDiff
              /\ rcBefore' = rcConfig
              /\ rcDiff' = NoDiff
              /\ rcLast' = "IGNORE"
         [] input \in {"1", "2", "3"} ->
              LET index == CHOOSE n \in 1..3 : <<"1", "2", "3">>[n] = input
              IN  /\ ~is_stale_only(rcDiff)
                  /\ index <= Len(rcDiff.new)
                  /\ rcDiff' = toggle(rcDiff, index)
                  /\ rcLast' = "toggle"
                  /\ UNCHANGED <<rcConfig, rcApplied, rcBefore>>
    /\ UNCHANGED <<rcRecommended, rcOthers>>

RcNext ==
    \/ \E recommendations \in SUBSET Sources : RecommendationsChange(recommendations)
    \/ ComputeDiff
    \/ \E input \in {"cancelled", "", "SAVE", "IGNORE", "1", "2", "3"} : DiffInput(input)

AppIdle == LmIdle /\ PmIdle /\ RcIdle

XtIdle == RgIdle /\ BaIdle /\ AppIdle

-----------------------------------------------------------------------------
(***************************************************************************)
(* Specifications                                                          *)
(***************************************************************************)

MbIdle == BrIdle /\ ShIdle /\ RtIdle /\ XtIdle

ChainInit == HcInit /\ EnInit /\ CdIdle /\ McIdle /\ MbIdle

ChainSpec == ChainInit /\ [][HcNext]_vars

EngineInit == EnInit /\ HcIdle /\ CdIdle /\ McIdle /\ MbIdle

EngineSpec == EngineInit /\ [][EnNext]_vars

WriterInit == EnInit /\ HcIdle /\ CdIdle /\ McIdle /\ MbIdle

WriterSpec == WriterInit /\ [][WrNext]_vars

ConductorInit == CdInit /\ HcIdle /\ EnInit /\ McIdle /\ MbIdle

Spec == ConductorInit /\ [][CdNext]_vars

\* Chains of one or two components, whose last component also addresses a
\* successor it does not have.
LastInit == CdInit /\ cdN <= 2 /\ HcIdle /\ EnInit /\ McIdle /\ MbIdle

LastNext ==
    \/ CdNext
    \/ \E type \in {"request", "notification"} : LastSendsToSuccessor(type)

LastSpec == LastInit /\ [][LastNext]_vars

CoreIdle == BrIdle /\ ShIdle /\ RtIdle /\ HcIdle /\ EnInit /\ CdIdle /\ McIdle

RegistryInit == RgIdle /\ BaIdle /\ AppIdle /\ CoreIdle

BridgeActorInit == BaInit /\ RgIdle /\ AppIdle /\ CoreIdle

BridgeActorSpec == BridgeActorInit /\ [][BaNext]_vars

RegistrySpec == RegistryInit /\ [][RgNext]_vars

CancelStateInit == CancelInit /\ PmIdle /\ RcIdle /\ RgIdle /\ BaIdle /\ CoreIdle

CancelSpec == CancelStateInit /\ [][CancelNext]_vars

LmInit == LmIdle /\ PmIdle /\ RcIdle /\ RgIdle /\ BaIdle /\ CoreIdle

LmSpec == LmInit /\ [][LmNext]_vars

PermissionInit == PmIdle /\ LmIdle /\ RcIdle /\ RgIdle /\ BaIdle /\ CoreIdle

PermissionSpec == PermissionInit /\ [][PmNext]_vars

RecommendationInit == RcIdle /\ LmIdle /\ PmIdle /\ RgIdle /\ BaIdle /\ CoreIdle

RecommendationSpec == RecommendationInit /\ [][RcNext]_vars

FaultInit == LaunchInit /\ HcIdle /\ EnInit /\ McIdle /\ MbIdle

FaultSpec == FaultInit /\ [][FaultNext]_vars

McInit == McIdle /\ HcIdle /\ EnInit /\ CdIdle /\ MbIdle

McSpec == McInit /\ [][McNext]_vars

BridgeInit == BrIdle /\ ShIdle /\ RtIdle /\ HcIdle /\ EnInit /\ CdIdle /\ McIdle /\ XtIdle

BridgeSpec == BridgeInit /\ [][BrNext]_vars

ShimInit == ShInit /\ BrIdle /\ RtIdle /\ HcIdle /\ EnInit /\ CdIdle /\ McIdle /\ XtIdle

ShimSpec == ShimInit /\ [][ShNext]_vars

\* Both branches of the select! are polled while the helper runs: an input
\* that has bytes, or its end, to deliver is read.
ShimLiveInit == ShInit /\ BrIdle /\ RtIdle /\ HcIdle /\ EnInit /\ CdIdle /\ McIdle /\ XtIdle

ShimLive ==
    ShimLiveInit /\ [][ShNext]_vars /\ \A d \in Dirs : WF_vars(Poll(d))

RetryInit == RtInit /\ BrIdle /\ ShIdle /\ HcIdle /\ EnInit /\ CdIdle /\ McIdle /\ XtIdle

RetrySpec == RetryInit /\ [][RtNext]_vars

\* The helper's task is the only one of its runtime: it is polled while it
\* can run, and its timers fire.
RetryLiveInit == RtInit /\ BrIdle /\ ShIdle /\ HcIdle /\ EnInit /\ CdIdle /\ McIdle /\ XtIdle

RetryLive ==
    RetryLiveInit /\ [][RtNext]_vars /\ WF_vars(ConnectAttempt) /\ WF_vars(Sleep)

-----------------------------------------------------------------------------
(***************************************************************************)
(* Properties of the handler chain                                         *)
(***************************************************************************)

CallsOf(name) == { i \in 1..Len(hcCalls) : hcCalls[i].handler = name }

\* C8: for H = chain(H1, H2), H2 is not invoked when H1 reports the message
\* handled, and when H1 reports it not handled H2 is invoked once, with
\* exactly the context and params H1 received.
ChainLaw ==
    hcMsg # NoMsg =>
      /\ Cardinality(CallsOf("H1")) = 1
      /\ \A i \in CallsOf("H1") :
           hcCalls[i].cx = CxOf(hcMsg) /\ hcCalls[i].okParams = hcMsg.okParams
      /\ hcResult.h1 = "Yes" => CallsOf("H2") = {} /\ hcResult.result = "Yes"
      /\ hcResult.h1 = "No" =>
           /\ Cardinality(CallsOf("H2")) = 1
           /\ \A i \in CallsOf("H1"), j \in CallsOf("H2") :
                /\ hcCalls[j].cx = hcCalls[i].cx
                /\ hcCalls[j].okParams = hcCalls[i].okParams

\* Both cases of the law have happened: a request H1 handled, with H2 never
\* called, after a dispatch H1 passed on.
ChainLawWitness ==
    /\ hcCount = 2
    /\ hcMsg.type = "request"
    /\ hcResult.h1 = "Yes"
    /\ hcChain.h1.kind = "chain"
    /\ CallsOf("H2") = {}

\* C13: a request that every handler of the chain declined is answered
\* with exactly one response, for its id, with the error -32601.
MethodNotFound ==
    (hcMsg.type = "request" /\ hcResult.result = "No") =>
      hcReply = << [id |-> hcMsg.id, code |-> -32601] >>

\* A request went through a chain whose first handler is itself a chain,
\* every handler was asked and declined, and the peer has the error.
MethodNotFoundWitness ==
    /\ hcMsg.type = "request"
    /\ hcResult.result = "No"
    /\ hcChain.h1.kind = "chain"
    /\ Len(hcCalls) = 4
    /\ Len(hcReply) = 1
    /\ hcReply[1].code = -32601

-----------------------------------------------------------------------------
(***************************************************************************)
(* Properties of the connection                                            *)
(***************************************************************************)

\* C4: with any number of requests outstanding and responses arriving in any
\* order, a future resolves only with a response that carries its own
\* request's id, it resolves exactly when such a response has been read
\* while the request was outstanding, and every response that matches no
\* outstanding request is discarded without completing a future.
Correlation ==
    /\ \A id \in OutIds :
         enFuture[id].state = "resolved" => enFuture[id].resp.id = id
    /\ \A id \in Issued :
         id \in enAnswered <=>
           (enFuture[id].state = "resolved" /\ enFuture[id].resp.code = 0)
    /\ enDiscarded = enStray

\* Two requests are outstanding at once, the later one has been answered
\* first, and one response that matched nothing has been discarded.
CorrelationWitness ==
    /\ enFuture[0].state = "waiting"
    /\ enFuture[1].state = "resolved"
    /\ enFuture[1].resp = Response(1, 0)
    /\ enDiscarded = 1

AllAnswered == Issued # {} /\ \A id \in Issued : id \in enAnswered

\* C9: once every outstanding request has received its response, or the
\* connection has closed, the pending-response map is empty and every future
\* is resolved, the futures the caller dropped included.
PendingCleanup ==
    (enClosed \/ AllAnswered) =>
      /\ enPending = {}
      /\ \A id \in Issued : enFuture[id].state = "resolved"

\* Both requests were answered on an open connection, one of them after its
\* future had been dropped.
PendingCleanupWitness ==
    /\ ~enClosed
    /\ Issued = {0, 1}
    /\ AllAnswered
    /\ enFuture[0].dropped
    /\ enPending = {}

\* C10: when the connection closes, every future that was pending at that
\* moment is resolved with the connection-closed error -32000.
CloseFailsPending ==
    enClosed =>
      \A id \in enAtClose :
        /\ enFuture[id].state = "resolved"
        /\ enFuture[id].resp.code = ConnectionClosedCode
        /\ enFuture[id].resp.id = id

\* The connection closed with two requests outstanding.
CloseFailsPendingWitness ==
    /\ enClosed
    /\ enAtClose = {0, 1}

-----------------------------------------------------------------------------
(***************************************************************************)
(* Properties of the conductor                                             *)
(***************************************************************************)

\* C1: every request or notification the editor wrote is forwarded to
\* component 0, and every request or notification component i wrote on its
\* client-facing side is forwarded to component i-1, or to the editor when
\* i = 0: a copy of such a line is only ever found on that link, and once
\* the conductor has routed the line there is exactly one copy of it there,
\* and none before.
RoutingTargets ==
    LET CopiesOn(l, w) ==
          { k \in DOMAIN cdObs[l] :
              /\ cdObs[l][k].uid = w.uid
              /\ cdObs[l][k].src = w.src
              /\ cdObs[l][k].type = w.type }
        Unrouted(w) ==
          \/ \E k \in DOMAIN cdToCond[w.src] : cdToCond[w.src][k] = w
          \/ \E k \in DOMAIN cdRx : cdRx[k].message = w
    IN
      /\ \A l \in Links : \A k \in DOMAIN cdObs[l] :
           (cdObs[l][k].type # "response" /\ cdObs[l][k].wrap = "none") =>
             l = IF cdObs[l][k].src = EditorLink THEN 0
                 ELSE IF cdObs[l][k].src = 0 THEN EditorLink
                 ELSE cdObs[l][k].src - 1
      /\ \A s \in Links : \A j \in DOMAIN cdWrote[s] :
           (cdWrote[s][j].type # "response" /\ cdWrote[s][j].wrap = "none") =>
             Cardinality(CopiesOn(IF s = EditorLink THEN 0
                                  ELSE IF s = 0 THEN EditorLink ELSE s - 1,
                                  cdWrote[s][j]))
               = IF Unrouted(cdWrote[s][j]) THEN 0 ELSE 1

\* In a chain of three, the initialize request of the editor has reached
\* component 0 and a request of the agent has travelled from component 2 to
\* component 1, from component 1 to component 0 and from component 0 to the
\* editor.
RoutingTargetsWitness ==
    /\ cdN = 3
    /\ \E k \in DOMAIN cdObs[0] :
         /\ cdObs[0][k].type = "request"
         /\ cdObs[0][k].method = "initialize"
         /\ cdObs[0][k].src = EditorLink
    /\ \E u \in 1..(2 * MaxTraffic) :
         /\ \E k \in DOMAIN cdObs[1] :
              /\ cdObs[1][k].method = "session/request_permission"
              /\ cdObs[1][k].uid = u /\ cdObs[1][k].src = 2
         /\ \E k \in DOMAIN cdObs[0] :
              /\ cdObs[0][k].method = "session/request_permission"
              /\ cdObs[0][k].uid = u /\ cdObs[0][k].src = 1
         /\ \E k \in DOMAIN cdObs[EditorLink] :
              /\ cdObs[EditorLink][k].method = "session/request_permission"
              /\ cdObs[EditorLink][k].uid = u /\ cdObs[EditorLink][k].src = 0

LinkLocalIds ==
    LET RequestsOn(l) == { k \in DOMAIN cdObs[l] : cdObs[l][k].type = "request" }
    IN
      \A l \in Links :
        /\ \A k \in RequestsOn(l) :
             cdObs[l][k].id = Cardinality({ j \in RequestsOn(l) : j < k })
        /\ \A k \in DOMAIN cdObs[l] :
             cdObs[l][k].type = "response" =>
               /\ \E j \in DOMAIN cdWrote[l] :
                    /\ cdWrote[l][j].type = "request"
                    /\ cdWrote[l][j].id = cdObs[l][k].id
                    /\ cdWrote[l][j].uid = cdObs[l][k].uid
               /\ \A j \in DOMAIN cdObs[l] :
                    (cdObs[l][j].type = "response"
                       /\ cdObs[l][j].id = cdObs[l][k].id) => j = k

\* The agent has its answer to a request that crossed a hop under another id
\* than the agent gave it, while the request of another requester was still
\* awaiting its response in the conductor.
LinkLocalIdsWitness ==
    \E k \in DOMAIN cdObs[AgentLink] :
      /\ cdObs[AgentLink][k].type = "response"
      /\ cdObs[AgentLink][k].uid > 0
      /\ \E l \in Links : \E j \in DOMAIN cdObs[l] :
           /\ cdObs[l][j].type = "request"
           /\ cdObs[l][j].uid = cdObs[AgentLink][k].uid
           /\ cdObs[l][j].id # cdObs[AgentLink][k].id
      /\ \E t \in cdPending :
           t.state = "waiting" /\ t.uid # cdObs[AgentLink][k].uid

\* C7: with every proxy a pure forwarder, the agent reads the lines the
\* editor wrote and the editor reads the lines the agent wrote, in the
\* order they were written, as they would over a direct connection (a line
\* taken for what it is, request, notification or response, and its payload,
\* whatever its id).
TransparentForwarding ==
    LET ContentOf(q) == [k \in DOMAIN q |-> <<q[k].type, q[k].uid>>]
        IsPrefix(a, b) == Len(a) <= Len(b) /\ \A k \in DOMAIN a : a[k] = b[k]
    IN
      (\A i \in Components : cdAccept[i]) =>
        /\ IsPrefix(ContentOf(cdObs[AgentLink]), ContentOf(cdWrote[EditorLink]))
        /\ IsPrefix(ContentOf(cdObs[EditorLink]), ContentOf(cdWrote[AgentLink]))

\* C12: the peer observes the lines written on one connection whole and in
\* the order they were issued, whichever tasks issued them; a notification
\* is never observed after a line issued later.
OrderedWrites ==
    /\ Len(wrSeen) <= Len(wrIssued)
    /\ \A k \in DOMAIN wrSeen : wrSeen[k] = Parts(wrIssued[k])

\* Two tasks have issued lines, a notification first, while earlier lines
\* were still queued, and the peer has observed all of them.
OrderedWritesWitness ==
    /\ Len(wrSeen) = MaxWrites
    /\ wrIssued[1].kind = "notification"
    /\ wrIssued[1].task # wrIssued[2].task
    /\ wrIssued[2].kind = "request"

-----------------------------------------------------------------------------
(***************************************************************************)
(* Properties of the conductor under faults                                *)
(***************************************************************************)

\* C11: when a proxy's stream has closed, every request that was pending on
\* that link is failed with an internal-error response, and once the chain
\* has been terminated the editor has a response to each request of its
\* own that the conductor had read.
ProxyCrashFailsPending ==
    \A l \in cdClosed \ {EditorLink, AgentLink} :
      /\ \A t \in cdPending :
           t.link = l =>
             /\ t.state = "ready"
             /\ t.value.error = NoError \/ t.value.error.code = InternalErrorCode
      /\ cdTerminated =>
           \A k \in DOMAIN cdWrote[EditorLink] :
             LET w == cdWrote[EditorLink][k] IN
               (/\ w.type = "request"
                /\ \A j \in DOMAIN cdToCond[EditorLink] :
                     cdToCond[EditorLink][j] # w)
               => \E j \in DOMAIN cdObs[EditorLink] :
                    /\ cdObs[EditorLink][j].type = "response"
                    /\ cdObs[EditorLink][j].id = w.id

SpawnFailureAnswersInitialize ==
    (cdTerminated /\ cdSpawned < cdN /\ cdEdInit # "none") =>
      \E j \in DOMAIN cdObs[EditorLink] :
        /\ cdObs[EditorLink][j].type = "response"
        /\ cdObs[EditorLink][j].uid = 0
        /\ cdObs[EditorLink][j].error.code = InternalErrorCode

\* C18: when the run has ended because the editor disconnected, no
\* component process is left running.
EditorDisconnectAborts ==
    (cdTerminated /\ EditorLink \in cdClosed) => Running = {}

-----------------------------------------------------------------------------
(***************************************************************************)
(* Properties of the MCP service registry                                  *)
(***************************************************************************)

\* C15: handling a notification sends nothing back to the peer it came
\* from, whether a handler took it, none did, or handling it failed.
NotificationsSilent ==
    mcMsg.type = "notification" =>
      \A k \in DOMAIN mcSent : mcSent[k].to # "peer"

\* C19: a session/new request the registry intercepts goes to the successor
\* with the mcp_servers it came with followed by exactly one http entry,
\* name and acp:<uuid> url, per server registered at that time; and the
\* response of the successor is what the requester is answered with.
NewSessionForward ==
    [][ /\ (mcCount' = mcCount + 1 /\ mcMsg'.method = "session/new" /\ mcMsg'.ok) =>
             /\ Len(mcSent') = 1
             /\ mcSent'[1].to = "successor"
             /\ mcSent'[1].kind = "request"
             /\ mcSent'[1].id = mcMsg'.id
             /\ LET body == mcSent'[1].body
                    n == Len(mcMsg'.servers)
                IN /\ Len(body) = n + Cardinality(mcServers)
                   /\ SubSeq(body, 1, n) = mcMsg'.servers
                   /\ { body[i] : i \in (n + 1)..Len(body) } =
                        { [type |-> "http", name |-> srv.name,
                           url |-> [scheme |-> "acp", uuid |-> srv.uuid]] :
                            srv \in mcServers }
        /\ (mcCount' = mcCount /\ mcForward' # mcForward) =>
             \E id \in mcForward \ mcForward' :
               LET n == Len(mcSent') IN
                 /\ n = Len(mcSent) + 2
                 /\ mcSent'[n - 1].to = "successor"
                 /\ mcSent'[n - 1].kind = "reply"
                 /\ mcSent'[n].to = "peer"
                 /\ mcSent'[n].kind = "response"
                 /\ mcSent'[n].id = id
                 /\ mcSent'[n].body = mcSent'[n - 1].body
      ]_vars

\* With two servers registered, a session/new that came with one server of
\* its own has been forwarded with three and the successor's response has
\* reached the requester.
NewSessionForwardWitness ==
    /\ mcMsg.method = "session/new"
    /\ mcMsg.ok
    /\ Len(mcMsg.servers) = 1
    /\ Cardinality(mcServers) = 2
    /\ Len(mcSent) = 3
    /\ Len(mcSent[1].body) = 3
    /\ mcSent[3].to = "peer"
    /\ mcSent[3].kind = "response"

\* C20: a _mcp/connect request that names a registered url is answered
\* with a success response that carries the id of the new connection.
ConnectSucceeds ==
    (mcMsg.method = "_mcp/connect" /\ mcMsg.ok /\ mcHandled = "Yes") =>
      \E k \in DOMAIN mcSent :
        /\ mcSent[k].to = "peer"
        /\ mcSent[k].kind = "response"
        /\ mcSent[k].id = mcMsg.id
        /\ mcSent[k].body \in DOMAIN mcConnections

\* C21: a _mcp/connect for a url that is not registered, and a _mcp/request
\* or _mcp/notification for a connection id that is not in the map, is
\* returned as not handled, nothing is sent, and the registry is as it was.
NotHandledPassThrough ==
    [][ ( /\ mcCount' = mcCount + 1
          /\ mcMsg'.ok
          /\ \/ /\ mcMsg'.method = "_mcp/connect"
                /\ \A srv \in mcServers : srv.uuid # mcMsg'.uuid
             \/ /\ mcMsg'.method \in {"_mcp/request", "_mcp/notification"}
                /\ mcMsg'.uuid \notin DOMAIN mcConnections )
        => /\ mcHandled' = "No"
           /\ mcSent' = << >>
           /\ UNCHANGED <<mcServers, mcConnections, mcTornDown, mcUuid, mcForward>>
      ]_vars

\* While a connection is open, a request for another connection id has
\* been handed to the registry and was returned as not handled.
NotHandledPassThroughWitness ==
    /\ mcMsg.method = "_mcp/request"
    /\ mcMsg.ok
    /\ DOMAIN mcConnections # {}
    /\ mcMsg.uuid \notin DOMAIN mcConnections
    /\ mcHandled = "No"

\* C22: a _mcp/request or _mcp/notification for a connection id in the map
\* joins the end of the mailbox of that connection, and the mailbox of
\* every other connection is as it was.
MailboxDelivery ==
    [][ ( /\ mcCount' = mcCount + 1
          /\ mcMsg'.ok
          /\ mcMsg'.method \in {"_mcp/request", "_mcp/notification"}
          /\ mcMsg'.uuid \in DOMAIN mcConnections )
        => /\ DOMAIN mcConnections' = DOMAIN mcConnections
           /\ \A c \in DOMAIN mcConnections :
                mcConnections'[c] =
                  IF c = mcMsg'.uuid
                    THEN Append(mcConnections[c],
                                [n |-> mcCount', type |-> mcMsg'.type])
                    ELSE mcConnections[c]
      ]_vars

\* A request and then a notification have been delivered to one connection.
MailboxDeliveryWitness ==
    \E c \in DOMAIN mcConnections :
      /\ Len(mcConnections[c]) = 2
      /\ mcConnections[c][1].type = "request"
      /\ mcConnections[c][2].type = "notification"
      /\ mcConnections[c][1].n < mcConnections[c][2].n

\* C23: a _mcp/connect adds at most one connection id, one that was never
\* used before, exactly one when it names a registered url, and leaves the
\* mailbox of every connection that was open as it was.
DistinctConnections ==
    [][ (mcCount' = mcCount + 1 /\ mcMsg'.method = "_mcp/connect")
        => LET new == DOMAIN mcConnections' \ DOMAIN mcConnections IN
             /\ Cardinality(new) <= 1
             /\ (mcMsg'.ok /\ \E srv \in mcServers : srv.uuid = mcMsg'.uuid)
                  => Cardinality(new) = 1
             /\ \A c \in new :
                  /\ c > mcUuid
                  /\ \A k \in DOMAIN mcTornDown : mcTornDown[k] # c
             /\ \A c \in DOMAIN mcConnections :
                  /\ c \in DOMAIN mcConnections'
                  /\ mcConnections'[c] = mcConnections[c]
      ]_vars

\* Two connects to the same registered url have been handled and both
\* connections are open.
DistinctConnectionsWitness ==
    /\ mcMsg.method = "_mcp/connect"
    /\ Cardinality(mcServers) = 1
    /\ Cardinality(DOMAIN mcConnections) = 2

\* C24: a _mcp/disconnect for an open connection removes its id from the
\* map and tears its session down; an id that was torn down is never in the
\* map again, and a later _mcp/request or _mcp/notification with it is
\* delivered nowhere.
DisconnectRemoves ==
    /\ [][ /\ ( /\ mcCount' = mcCount + 1
                /\ mcMsg'.method = "_mcp/disconnect"
                /\ mcMsg'.ok
                /\ mcMsg'.uuid \in DOMAIN mcConnections )
              => /\ mcMsg'.uuid \notin DOMAIN mcConnections'
                 /\ mcTornDown' = Append(mcTornDown, mcMsg'.uuid)
                 /\ mcHandled' = "Yes"
           /\ ( /\ mcCount' = mcCount + 1
                /\ mcMsg'.method \in {"_mcp/request", "_mcp/notification"}
                /\ mcMsg'.ok
                /\ \E k \in DOMAIN mcTornDown : mcTornDown[k] = mcMsg'.uuid )
              => /\ mcConnections' = mcConnections
                 /\ mcSent' = << >>
                 /\ mcHandled' = "No"
          ]_vars
    /\ [](\A k \in DOMAIN mcTornDown : mcTornDown[k] \notin DOMAIN mcConnections)

\* A connection was opened and disconnected, and a request that came for
\* it afterwards was not delivered.
DisconnectRemovesWitness ==
    /\ Len(mcTornDown) = 1
    /\ mcMsg.method = "_mcp/request"
    /\ mcMsg.ok
    /\ mcMsg.uuid = mcTornDown[1]
    /\ mcHandled = "No"
    /\ mcConnections = << >>

\* C25: no connection id is torn down twice, and a _mcp/disconnect for an
\* id that is not in the map, unknown or already removed, changes nothing
\* and sends nothing.
DisconnectIdempotent ==
    /\ [][ ( /\ mcCount' = mcCount + 1
              /\ mcMsg'.method = "_mcp/disconnect"
              /\ mcMsg'.ok
              /\ mcMsg'.uuid \notin DOMAIN mcConnections )
            => /\ mcHandled' = "No"
               /\ mcSent' = << >>
               /\ UNCHANGED <<mcServers, mcConnections, mcTornDown, mcUuid,
                              mcForward>>
          ]_vars
    /\ [](\A j, k \in DOMAIN mcTornDown : mcTornDown[j] = mcTornDown[k] => j = k)

\* A connection was opened and two disconnects for it have been handled;
\* the second found nothing to remove.
DisconnectIdempotentWitness ==
    /\ Len(mcTornDown) = 1
    /\ mcMsg.method = "_mcp/disconnect"
    /\ mcMsg.ok
    /\ mcMsg.uuid = mcTornDown[1]
    /\ mcHandled = "No"
    /\ mcCount = 3


-----------------------------------------------------------------------------
(***************************************************************************)
(* Properties of the conductor's MCP bridging                              *)
(***************************************************************************)

IsAcpEntry(server) == server.type = "http" /\ server.url.scheme = "acp"

\* seen is orig with exactly the entries `bridged` picks replaced by a stdio
\* entry whose args are "mcp" and the port of a listener bound on 127.0.0.1
\* for the entry's url.
RewrittenWhere(bridged(_), orig, seen, listeners) ==
    /\ Len(seen) = Len(orig)
    /\ \A i \in 1..Len(orig) :
         IF bridged(orig[i])
         THEN \E port \in 1..Len(listeners) :
                /\ listeners[port] = [addr |-> "127.0.0.1", acp_url |-> orig[i].url]
                /\ seen[i].type = "stdio"
                /\ seen[i].args = <<"mcp", ToString(port)>>
         ELSE seen[i] = orig[i]

HasHeaders(server) == IsAcpEntry(server) /\ server.headers # << >>

Bridgeable(server) == IsAcpEntry(server) /\ server.headers = << >>

NativeAgentNoRewrite ==
    /\ [][brCount' = brCount + 1 /\ brNative = "advertised" =>
            /\ brSeen' = [err |-> 0, servers |-> brOrig']
            /\ brListeners' = brListeners]_vars
    /\ [](brNative = "advertised" => brListeners = << >> /\ brBridges = << >>)

\* A list with an acp: entry went to a native agent.
NativeAgentNoRewriteWitness ==
    /\ brNative = "advertised"
    /\ brCount > 0
    /\ \E i \in 1..Len(brOrig) : Bridgeable(brOrig[i])


-----------------------------------------------------------------------------
(***************************************************************************)
(* Properties of `conductor mcp <port>`                                    *)
(***************************************************************************)

\* The bytes of an input that have been written and not yet read.
Unread(d) == SelectSeq(shPipe[d], LAMBDA c : c # Eof)

\* C28: while the helper runs, what it has written to the TCP socket are the
\* lines of stdin, byte for byte and in order, and what it has written to
\* stdout are the lines of the TCP socket: together with the line being read
\* and the bytes not yet read they are exactly what the other side wrote, so
\* no line is dropped, duplicated or rewritten.
BridgeByteFaithful ==
    shRun = "running" =>
        \A d \in Dirs :
            Flatten(shOut[d]) \o shBuf[d] \o Unread(d) = BytesOf(shWrote[d])


\* The delay the claim gives for the sleep after the k-th failed attempt.
Backoff(k) == IF 50 * 2^(k - 1) < 1000 THEN 50 * 2^(k - 1) ELSE 1000

\* C29: connect_with_retry makes at most 10 attempts; the sleep after the k-th
\* failed attempt is 50 ms doubled k - 1 times, at most 1 s; the first attempt
\* that finds the port bound returns the stream, the 10th failed attempt ends
\* the helper in failure, and nothing is attempted after either.
RetryBackoff ==
    /\ [][/\ (/\ rtResult = "connecting"
              /\ rtSleep = 0
              /\ <<rtResult, rtSleep>>' # <<rtResult, rtSleep>>) =>
                 IF rtBoundAt # -1 THEN rtResult' = "ok" /\ rtSleep' = 0
                 ELSE IF rtAttempt < 10
                 THEN rtResult' = "connecting" /\ rtSleep' = Backoff(rtAttempt)
                 ELSE rtResult' = "failed" /\ rtSleep' = 0
          /\ rtResult # "connecting" =>
                 /\ rtResult' = rtResult
                 /\ rtAttempt' = rtAttempt
                 /\ rtSleep' = rtSleep]_vars
    /\ [](rtAttempt \in 1..10 /\ rtDelay = Backoff(rtAttempt))

\* Ten attempts failed, 5550 ms after the first.
RetryBackoffWitness ==
    /\ rtResult = "failed"
    /\ rtAttempt = 10
    /\ rtClock = 5550
    /\ rtBoundAt = -1

\* C30: a helper whose port becomes bound within 500 ms of its start
\* eventually has its stream.
BoundInTimeSucceeds ==
    (rtBoundAt # -1 /\ rtBoundAt <= 500) ~> (rtResult = "ok")

\* The port became bound 500 ms after the start, and the helper connected.
BoundInTimeSucceedsWitness ==
    /\ rtBoundAt = 500
    /\ rtResult = "ok"
    /\ rtAttempt > 1


\* C31: once stdin is at its end or the TCP peer has closed, the helper
\* eventually leaves its loop, whichever of the two comes first; having left
\* it, the helper forwards nothing more.
HelperExits ==
    /\ \A d \in Dirs : (~Open(d)) ~> (shRun # "running")
    /\ [][shRun # "running" => shRun' = shRun /\ shOut' = shOut]_vars

\* The helper stopped at the end of one input while the other still had
\* lines to deliver.
HelperExitsWitness ==
    /\ shRun = "stopped"
    /\ \E d \in Dirs : Open(d) /\ Unread(d) # << >>


-----------------------------------------------------------------------------
(***************************************************************************)
(* Further properties of the conductor                                     *)
(***************************************************************************)

\* C35: a notification the agent wrote before a response is never read by
\* the editor after that response: when the editor has read the response,
\* it has read the notification before it.
NotificationBeforeResponse ==
    (\A i \in Components : cdAccept[i]) =>
        \A a, b \in DOMAIN cdWrote[AgentLink] :
            (/\ a < b
             /\ cdWrote[AgentLink][a].type = "notification"
             /\ cdWrote[AgentLink][b].type = "response") =>
                \A k \in DOMAIN cdObs[EditorLink] :
                    (/\ cdObs[EditorLink][k].type = "response"
                     /\ cdObs[EditorLink][k].uid = cdWrote[AgentLink][b].uid) =>
                        \E j \in 1..(k - 1) :
                            /\ cdObs[EditorLink][j].type = "notification"
                            /\ cdObs[EditorLink][j].uid = cdWrote[AgentLink][a].uid


\* The requests the last component addressed to a successor, by position
\* among the lines it wrote.
ToNoSuccessor ==
    { k \in DOMAIN cdWrote[AgentLink] :
        /\ cdWrote[AgentLink][k].wrap # "none"
        /\ cdWrote[AgentLink][k].type = "request" }

AnswersTo(k) ==
    { j \in DOMAIN cdObs[AgentLink] :
        /\ cdObs[AgentLink][j].type = "response"
        /\ cdObs[AgentLink][j].id = cdWrote[AgentLink][k].id
        /\ cdObs[AgentLink][j].uid = cdWrote[AgentLink][k].uid }

\* C38: a _proxy/successor/send/request of the last component is answered
\* at most once, with an internal error and as soon as the main loop has
\* routed it, and the conductor serves on.
NoSuccessorInternalError ==
    /\ [](\A k \in ToNoSuccessor :
            /\ Cardinality(AnswersTo(k)) <= 1
            /\ \A j \in AnswersTo(k) :
                 cdObs[AgentLink][j].error =
                    [code |-> InternalErrorCode, component |-> -1])
    /\ [][(/\ cdRx # << >>
           /\ cdRx' = Tail(cdRx)
           /\ Head(cdRx).kind = "ComponentToItsSuccessorSendRequest"
           /\ Head(cdRx).component_index = AgentLink) =>
              /\ \E k \in ToNoSuccessor :
                   /\ cdWrote[AgentLink][k].uid = Head(cdRx).message.uid
                   /\ AnswersTo(k) = {}
                   /\ AnswersTo(k)' # {}
              /\ Serving'
              /\ cdFailed' = cdFailed]_vars

\* The last component has its internal error, and read a request of the
\* editor that the conductor routed after it.
NoSuccessorInternalErrorWitness ==
    \E k \in ToNoSuccessor : \E j \in AnswersTo(k) :
        \E n \in DOMAIN cdObs[AgentLink] :
            /\ n > j
            /\ cdObs[AgentLink][n].type = "request"


-----------------------------------------------------------------------------
(***************************************************************************)
(* Properties of concurrent registrations                                  *)
(***************************************************************************)

\* C39: no two registered servers have the same name, also when the calls
\* of add_rmcp_server overlap; every registered server is in both maps; and a
\* call that fails leaves both maps as they are.
OneServerPerName ==
    /\ [](/\ \A a, b \in rgByUrl : a.name = b.name => a = b
          /\ \A a \in rgByUrl :
               a.name \in DOMAIN rgByName /\ rgByName[a.name] = a.uuid
          /\ \A n \in DOMAIN rgByName :
               [name |-> n, uuid |-> rgByName[n]] \in rgByUrl)
    /\ [][\A t \in Handles :
            rgCalls'[t].at = "err" /\ rgCalls'[t] # rgCalls[t] =>
                rgByName' = rgByName /\ rgByUrl' = rgByUrl]_vars


\* C37: while the bridge actor's mailbox is open the actor runs, and every
\* message taken from the mailbox, request or notification, has been written
\* to the TCP socket, in the order queued.
BridgeForwardsEveryMessage ==
    baOpen = {"mailbox", "socket"} =>
        /\ baRun = "running"
        /\ baSocket \o baQueue = baSent

\* The codes of the responses written to VS Code for a request, in order.
ResponseCodes(request_id) ==
    LET answers == SelectSeq(lmOut, LAMBDA line :
                      line.kind = "response" /\ line.id = request_id)
    IN  [k \in 1..Len(answers) |-> answers[k].code]

CancelledCompletesRaceWitness ==
    \E r \in lmCancelled : lmTask[r] = "done" /\ ResponseCodes(r) = <<0>>

\* C33: a request that extends the history of a session whose previous turn
\* has ended with lm/responseComplete is accepted by that session: its
\* stream_response task is started and the handler goes on.
SecondTurnAccepted ==
    \A r \in 1..lmAsked :
       lmAfter[r] = "completed" => lmTask[r] # "none" /\ lmHandler = "running"

\* C36: a permission request of the agent has exactly one response; it
\* selects the allow-once option if the internal tool is available, the next
\* request exists, is not cancelled, its first message is exactly the result
\* of this tool call and an AllowOnce option was offered, and it is Cancelled
\* in every other case.
PermissionAnsweredOnce ==
    pmCount > 0 =>
       LET next_request == pmRequest.next_request
           approved ==
              /\ pmRequest.has_internal_tool
              /\ next_request.present
              /\ ~next_request.canceled
              /\ next_request.messages # << >>
              /\ HasJustToolResult(Head(next_request.messages), pmRequest.tool_call_id)
              /\ "AllowOnce" \in pmRequest.options
       IN  pmAnswers = IF approved THEN <<"Selected:AllowOnce">> ELSE <<"Cancelled">>

\* The same for the requests that are followed by no request, a cancelled
\* one, or one that has a message.
PermissionAnsweredOnceWithMessage ==
    (pmCount > 0 /\ (pmRequest.has_internal_tool /\ pmRequest.next_request.present
                      /\ ~pmRequest.next_request.canceled
                         => pmRequest.next_request.messages # << >>))
       => LET next_request == pmRequest.next_request
              approved ==
                 /\ pmRequest.has_internal_tool
                 /\ next_request.present
                 /\ ~next_request.canceled
                 /\ HasJustToolResult(Head(next_request.messages), pmRequest.tool_call_id)
                 /\ "AllowOnce" \in pmRequest.options
          IN  pmAnswers = IF approved THEN <<"Selected:AllowOnce">> ELSE <<"Cancelled">>

====
